---- MODULE Spec2Model ----
(***************************************************************************)
(* Model of the document text-extraction service (Service 1):              *)
(*   - the queue rows of doc_text_extraction_queue and the statements the   *)
(*     service runs against them,                                          *)
(*   - the per-document pipeline _process_single_document, one step per     *)
(*     database statement / tracker call / suspension point,               *)
(*   - the batch orchestrator extract_text_for_documents and the router     *)
(*     that starts it in a background thread with its own event loop,       *)
(*   - the in-memory ProgressTracker and the progress endpoint,             *)
(*   - the password resolver and the authentication loop of the PDF         *)
(*     processor.                                                          *)
(*                                                                         *)
(* Scheduling: every batch runs in its own thread with its own asyncio      *)
(* event loop.  Tasks of one batch are cooperative: a task keeps the loop   *)
(* until it reaches an await that really suspends (source download,         *)
(* run_in_executor, the HTTP notify).  Threads of different batches are     *)
(* preemptive and interleave between any two statements.                    *)
(***************************************************************************)
EXTENDS Integers, Sequences, FiniteSets, TLC

\* ------------------------------------------------------------------ bounds
NumBatches == 2
NumDocs == 2
MaxPages == 2
MaxDbFailures == 1
MaxTrackedDocs == 1
MaxTrackedPages == 50
MaxIncrement == 1
NumPasswords == 3
MaxSaves == 2
MaxPasswordLen == 2
\* seconds the clock advances in one step, and the last second looked at
ClockStep == 60
MaxClock == 600
\* documents of a batch started through start_extraction
MaxStartedDocs == 2
\* successful processings of one document
MaxRuns == 3

Batches == 1..NumBatches
Docs == 1..NumDocs
Workers == Batches \X Docs

\* a request without batch_id, and the batch id of a request not yet made
NoBatchId == <<>>

\* request payloads the model runs: every batch asks for row 1 (the row is
\* contended across batches), or the first batch asks for every row and the
\* other requests are empty
\* (the last of the contending requests brings its own batch_id).
Requests ==
    {[b \in Batches |->
        [queue_ids |-> {1},
         batch_id |-> IF b = NumBatches THEN <<"client", b, 0>> ELSE NoBatchId]],
     [b \in Batches |->
        [queue_ids |-> IF b = 1 THEN Docs ELSE {}, batch_id |-> NoBatchId]]}

\* doc_id of row d
DocId(d) == "D" \o ToString(d)

\* physical page count of the PDF behind row d
PhysicalPages(d) == ((d - 1) % MaxPages) + 1

\* what a page of a PDF is to the renderer: text that fitz reads, a scan that
\* only OCR reads, a page neither reads, a page whose access raises
PageKinds == {"text", "scanned", "unreadable", "broken"}
KindCycle == <<"unreadable", "text", "scanned", "broken">>

\* the pages of the PDF behind row d
PagesOf(d) ==
    [i \in 1..PhysicalPages(d) |-> KindCycle[((d + i - 2) % Len(KindCycle)) + 1]]

\* a nullable integer column: <<>> is NULL, <<n>> holds n
Null == <<>>
Some(n) == <<n>>

\* values the informational column number_of_pages can hold
PageColumns == {Null} \cup {Some(n) : n \in 0..MaxPages}

\* the column records the physical page count of every row
RecordedAsIs == [d \in Docs |-> Some(PhysicalPages(d))]

\* storage_backend: the local output folder, or an S3 bucket
Backends == {"local", "s3"}

\* what the model runs: the request payloads above on a table whose page
\* column is accurate, with the local output folder; or one request for a
\* single row whose page column holds any value (NULL, zero, less, equal or
\* more than the PDF has), with either backend
Scenarios ==
    {[request |-> r, pages |-> RecordedAsIs, backend |-> "local"] : r \in Requests}
    \cup
    {[request |-> [b \in Batches |->
                     [queue_ids |-> IF b = 1 THEN {d} ELSE {}, batch_id |-> NoBatchId]],
      pages |-> [RecordedAsIs EXCEPT ![d] = c], backend |-> k] :
        d \in Docs, c \in PageColumns, k \in Backends}

\* ------------------------------------------------------------------ values
NoValue == "NULL"
MsgLocked == "Document is currently being processed"
MsgNoPdf == "Could not access PDF file"
MsgNoDocs == "No documents found in queue"
MsgAllFailed == "All documents failed to process"
\* passwords_to_try[:3]
MaxAttempts == 3
\* variant: the message does not say how many candidates were tried
AuthFailedMessage_NoAttempts(n) == "PDF requires password"
\* the message after the loop (the list of the candidates that follows the
\* number is left out)
AuthFailedMessage(n) == "PDF requires password. Tried " \o ToString(n) \o " attempts"
\* str(e) of an exception that leaves extract_text_from_pdf_enhanced
MsgRenderer == "PyMuPDF (fitz) is required for PDF processing"
\* str(e) of an exception fitz.open raises
MsgOpenError == "cannot open broken document"
MsgCopyError == "copy error"
MsgStorageError == "storage error"

NotifyOutcomes == {"2xx", "non_2xx", "timeout", "request_error", "unexpected"}

\* awaits of _process_single_document that really suspend the task
ResumePcs == {"start", "downloading", "extracting", "notify_wait"}

VARIABLES
    request,          \* payload of each POST /extract: queue_ids, batch_id
    rows,             \* doc_text_extraction_queue, by doc_id
    db_failures,      \* number of database statements that raised so far
    service2_enabled, \* G_SERVICE2_ENABLED, fixed at construction
    trackers,         \* ProgressTracker._progress_trackers: batch_id -> snapshot
    batch_id,         \* batch id used by the background thread of each request
    opc,              \* position of each request / orchestrator
    documents,        \* rows fetched by the orchestrator of each batch
    outcome,          \* which terminal tracker call the orchestrator made
    running,          \* task that holds the event loop of each batch (0: none)
    pc,               \* position of each per-document task
    lock_acquired,    \* local lock_acquired of each task
    extraction,       \* local extraction_result of each task
    failure,          \* error message the task is about to report
    service2_success, \* local service2_success of each task ("none" before the call)
    result,           \* value returned by each task
    log,              \* operations issued by each task, in order
    wrote,            \* row fields each task has written successfully
    progress_response,\* last reply of GET /progress/{batch_id}
    provided_password,\* password column of the row handed to the PDF processor
    saved_passwords,  \* file_passwords.csv: entry for the file's basename
    password_cache,   \* FileManagementService.password_cache: entry for the basename
    default_password, \* FileManagementService.default_password
    pdf,              \* the PDF file: needs_pass, the password that opens it, its pages
    enhanced,         \* the running call of extract_text_from_pdf_enhanced
    source,           \* a call of get_pdf_file: the row's URIs, the files, the outcome
    password_file,    \* file_passwords.csv of one directory, as characters
    cleanup,          \* the clock and the cleanup threads of the tracker
    config,           \* a call of Service1ConfigManager.get_var: inputs and result
    page_call,        \* a call of _extract_page_text: the page and the record made
    tracker_threads,  \* threads inside tracker operations, and the lock's holder
    writers,          \* threads inside save_successful_password
    reprocess,        \* successive extractions of one document and its folder
    started,          \* calls of start_extraction and what was returned to each
    storage_backend,  \* "local" or "s3", fixed at construction
    store             \* the output folder / bucket: key -> body of each artifact

\* state of the tracker endpoint and of the PDF processor, which the batch
\* pipeline below does not touch
probes == <<progress_response, provided_password, saved_passwords, password_cache,
            default_password, pdf, enhanced, source, password_file, cleanup, config,
            page_call, tracker_threads, writers, reprocess, started>>

\* the probes of single operations that the calls above leave alone
units == <<page_call, tracker_threads, writers, reprocess, started>>

\* state of the batch pipeline
batch == <<request, rows, db_failures, service2_enabled, batch_id, opc, documents,
           outcome, running, pc, lock_acquired, extraction, failure,
           service2_success, result, log, wrote, storage_backend, store>>

vars == <<request, rows, db_failures, service2_enabled, trackers, batch_id, opc, documents,
          outcome, running, pc, lock_acquired, extraction, failure,
          service2_success, result, log, wrote, progress_response, provided_password,
          saved_passwords, password_cache, default_password, pdf, enhanced, source,
          password_file, cleanup, config, page_call, tracker_threads, writers, reprocess,
          started, storage_backend, store>>

\* ------------------------------------------------------------------ queue store
NewRow(d, pages) ==
    [extraction_id |-> d,
     is_active |-> TRUE,
     number_of_pages |-> pages,
     text_extraction_status |-> 0,
     is_processing |-> FALSE,
     processing_started_at |-> NoValue,
     datalake_raw_uri |-> NoValue,
     datalake_text_uri |-> NoValue,
     text_extraction_duration_seconds |-> NoValue,
     error_message |-> NoValue,
     last_error_message |-> NoValue,
     last_processed_at |-> NoValue,
     extracted_at |-> NoValue,
     updated_at |-> NoValue]

\* UPDATE ... SET is_processing = TRUE, processing_started_at = now(), updated_at = now()
LockRow(r, d) ==
    [r EXCEPT ![d].is_processing = TRUE,
              ![d].processing_started_at = "now",
              ![d].updated_at = "now"]

\* variant: the release clears the flag and leaves processing_started_at
UnlockRow_KeepsStartedAt(r, d) ==
    [r EXCEPT ![d].is_processing = FALSE, ![d].updated_at = "now"]

\* UPDATE ... SET is_processing = FALSE, processing_started_at = NULL, updated_at = now()
UnlockRow(r, d) ==
    [r EXCEPT ![d].is_processing = FALSE,
              ![d].processing_started_at = NoValue,
              ![d].updated_at = "now"]

\* UPDATE ... SET text_extraction_status = v, updated_at = now()
StatusRow(r, d, v) ==
    [r EXCEPT ![d].text_extraction_status = v, ![d].updated_at = "now"]

\* UPDATE ... SET datalake_raw_uri = uri, updated_at = now()
RawUriRow(r, d, uri) ==
    [r EXCEPT ![d].datalake_raw_uri = uri, ![d].updated_at = "now"]

\* UPDATE ... SET datalake_text_uri = uri, updated_at = now()
TextUriRow(r, d, uri) ==
    [r EXCEPT ![d].datalake_text_uri = uri, ![d].updated_at = "now"]

\* UPDATE ... SET last_error_message = m, error_message = m, updated_at = now()
ErrorRow(r, d, m) ==
    [r EXCEPT ![d].last_error_message = m, ![d].error_message = m,
              ![d].updated_at = "now"]

\* UPDATE ... SET text_extraction_duration_seconds = s, updated_at = now()
DurationRow(r, d, s) ==
    [r EXCEPT ![d].text_extraction_duration_seconds = s, ![d].updated_at = "now"]

\* UPDATE ... SET last_processed_at = now(), updated_at = now(), extracted_at = now()
LastProcessedRow(r, d) ==
    [r EXCEPT ![d].last_processed_at = "now", ![d].extracted_at = "now",
              ![d].updated_at = "now"]

\* outcomes a database statement can have now: it commits (TRUE) or raises (FALSE)
DbOutcomes == IF db_failures < MaxDbFailures THEN {TRUE, FALSE} ELSE {TRUE}

DbCount(ok) == db_failures + (IF ok THEN 0 ELSE 1)

SourcePdfPath(d) == "datalake/" \o ToString(d) \o "/source.pdf"
\* where the pages of row d go: <output folder>/<doc_id>/extracted_text, or
\* s3://<bucket>/<prefix>/<doc_id>/extracted_text
OutputRoot(backend) == IF backend = "s3" THEN "s3://bucket/prefix" ELSE "service1_output"
OutputPrefix(d) == ToString(d) \o "/extracted_text"
TextUriOf(d) == OutputRoot(storage_backend) \o "/" \o OutputPrefix(d)

\* ------------------------------------------------------------------ progress tracker
\* A snapshot is a dict: a function from keys to values.  Keys the code adds
\* later (progress_percentage, completed_at, error) are absent at first.
NewSnapshot(n) ==
    [total_documents |-> n,
     processed_documents |-> 0,
     total_pages |-> 0,
     processed_pages |-> 0,
     current_document |-> NoValue,
     current_stage |-> NoValue,
     current_operation |-> NoValue,
     status |-> "starting",
     results |-> {},
     errors |-> {}]

\* dict update: keys of kw override or extend those of snap
Merge(snap, kw) == kw @@ snap

\* quotients k in 0..100 for which the double nearest to k/100, multiplied by
\* 100, is a double just below k (0.29 * 100 = 28.999999999999996)
ShortProducts == {29, 57, 58}

\* int((a / b) * 100) in double arithmetic: the floor of 100a/b, except that an
\* exact quotient whose product falls short is truncated to the integer below.
\* (For a > b the first short product is 23/20; the page counts of the batch
\* pipeline stay below it.)
Percent(a, b) ==
    LET k == (100 * a) \div b
    IN  IF a <= b /\ (100 * a) % b = 0 /\ k \in ShortProducts THEN k - 1 ELSE k

StartExtraction(t, id, n) == (id :> NewSnapshot(n)) @@ t

UpdateProgress(t, id, kw) ==
    IF id \notin DOMAIN t THEN t
    ELSE LET snap == t[id]
             known == [k \in (DOMAIN kw) \cap (DOMAIN snap) |-> kw[k]]
             merged == Merge(snap, known)
             final == IF "processed_documents" \in DOMAIN kw /\ merged["total_documents"] > 0
                      THEN Merge(merged, [progress_percentage |->
                               Percent(merged["processed_documents"], merged["total_documents"])])
                      ELSE merged
         IN  [t EXCEPT ![id] = final]

IncrementProcessed(t, id, processed_pages) ==
    IF id \notin DOMAIN t THEN t
    ELSE LET snap == t[id]
             count == snap["processed_documents"] + 1
             total == snap["total_documents"]
             pages == IF processed_pages > 0
                      THEN snap["processed_pages"] + processed_pages
                      ELSE snap["processed_pages"]
             pct == IF snap["total_pages"] > 0
                    THEN Percent(pages, snap["total_pages"])
                    ELSE IF total > 0 THEN Percent(count, total) ELSE 0
         IN  [t EXCEPT ![id] = Merge(snap, [processed_documents |-> count,
                                            processed_pages |-> pages,
                                            progress_percentage |-> pct])]

CompleteExtraction(t, id, results) ==
    IF id \notin DOMAIN t THEN t
    ELSE [t EXCEPT ![id] = Merge(t[id], [status |-> "completed",
                                          completed_at |-> "now",
                                          results |-> results,
                                          progress_percentage |-> 100])]

FailExtraction(t, id, error) ==
    IF id \notin DOMAIN t THEN t
    ELSE [t EXCEPT ![id] = Merge(t[id], [status |-> "failed", error |-> error])]

\* variant: an id without snapshot is answered with 404 Not Found
GetProgressResponse_NotFound(t, id) ==
    IF id \notin DOMAIN t
    THEN [http |-> "404", batch_id |-> id]
    ELSE LET snap == t[id]
         IN  [http |-> "200", batch_id |-> id, status |-> snap["status"],
              total_documents |-> snap["total_documents"],
              processed_documents |-> snap["processed_documents"],
              total_pages |-> snap["total_pages"],
              processed_pages |-> snap["processed_pages"],
              progress_percentage |-> IF "progress_percentage" \in DOMAIN snap
                                      THEN snap["progress_percentage"] ELSE 0,
              current_stage |-> snap["current_stage"],
              results |-> snap["results"], errors |-> snap["errors"]]

\* tracker.get_progress and the reply of GET /progress/{batch_id}: the live
\* snapshot, or for an id without snapshot a made-up completed one
GetProgressResponse(t, id) ==
    IF id \notin DOMAIN t
    THEN [http |-> "200", batch_id |-> id, status |-> "completed",
          total_documents |-> 0, processed_documents |-> 0,
          total_pages |-> 0, processed_pages |-> 0, progress_percentage |-> 100,
          current_stage |-> "completed", results |-> {}, errors |-> {}]
    ELSE LET snap == t[id]
         IN  [http |-> "200", batch_id |-> id, status |-> snap["status"],
              total_documents |-> snap["total_documents"],
              processed_documents |-> snap["processed_documents"],
              total_pages |-> snap["total_pages"],
              processed_pages |-> snap["processed_pages"],
              progress_percentage |-> IF "progress_percentage" \in DOMAIN snap
                                      THEN snap["progress_percentage"] ELSE 0,
              current_stage |-> snap["current_stage"],
              results |-> snap["results"], errors |-> snap["errors"]]

NoResponse == [http |-> "none"]

\* ------------------------------------------------------------------ source files
\* a URI column: <<>> is NULL, else <<scheme, rest>>; a filesystem path has
\* the empty scheme and the empty string has both parts empty
RawPath == <<"", "/incoming/raw.pdf">>
SourcePath == <<"", "/incoming/source.pdf">>
EmptyUri == <<"", "">>
RawUris == {Null, EmptyUri, RawPath}
SourceUris ==
    {Null, EmptyUri, SourcePath, <<"https", "//host/doc.pdf">>, <<"http", "//host/doc.pdf">>,
     <<"ftp", "//host/doc.pdf">>}

\* <datalake_root>/<doc_id>/source.pdf as a path
DatalakePdf(d) == <<"", SourcePdfPath(d)>>

\* paths that may exist when get_pdf_file is called for row d
SourceFiles(d) == {DatalakePdf(d), RawPath, SourcePath}

\* Python truthiness of an optional string
TruthyUri(u) == u # Null /\ u # EmptyUri
\* os.path.exists
Exists(files, u) == u \in files
\* source_uri.startswith(("http://", "https://"))
IsHttpUrl(u) == u[1] \in {"http", "https"}

\* variant: source_uri is looked at before datalake_raw_uri
SourceRule_SourceUriFirst(files, d, raw, src) ==
    IF Exists(files, DatalakePdf(d)) THEN "existing"
    ELSE IF TruthyUri(src) /\ Exists(files, src) THEN "copy_source"
    ELSE IF TruthyUri(src) /\ IsHttpUrl(src) THEN "download"
    ELSE IF TruthyUri(raw) /\ Exists(files, raw) THEN "copy_raw"
    ELSE "none"

\* get_pdf_file: which way the file is obtained
SourceRule(files, d, raw, src) ==
    IF Exists(files, DatalakePdf(d)) THEN "existing"
    ELSE IF TruthyUri(raw) /\ Exists(files, raw) THEN "copy_raw"
    ELSE IF TruthyUri(src)
         THEN IF Exists(files, src) THEN "copy_source"
              ELSE IF IsHttpUrl(src) THEN "download"
              ELSE "none"
    ELSE "none"

\* no call of get_pdf_file is under way (status and error are what the caller
\* in _process_single_document issues when the call returns None)
SourceIdle ==
    [pc |-> "idle", doc |-> 0, datalake_raw_uri |-> Null, source_uri |-> Null,
     files |-> {}, rule |-> "none", result |-> NoValue, status |-> 0, error |-> NoValue]

\* ------------------------------------------------------------------ pages
\* _extract_page_text, and the record the page loop stores when it raises:
\* fitz text if meaningful, else the OCR text, else method "failed" with empty
\* text
ExtractPageText(kind) ==
    CASE kind = "text" -> [text |-> "fitz text", method |-> "fitz", error |-> NoValue]
      [] kind = "scanned" -> [text |-> "ocr text", method |-> "tesseract", error |-> NoValue]
      [] kind = "unreadable" ->
            [text |-> "", method |-> "failed", error |-> "Both fitz and tesseract failed"]
      [] OTHER -> [text |-> "", method |-> "failed", error |-> "page error"]

\* the page loop: result["pages"][page_num + 1] for every page of the document
ExtractPages(kinds) == [i \in DOMAIN kinds |-> ExtractPageText(kinds[i])]

\* f"{page_num:04d}"
ZeroPad4(n) ==
    (IF n < 10 THEN "000" ELSE IF n < 100 THEN "00" ELSE IF n < 1000 THEN "0" ELSE "")
    \o ToString(n)

\* method.upper()
Upper(method) ==
    CASE method = "fitz" -> "FITZ"
      [] method = "tesseract" -> "TESSERACT"
      [] method = "failed" -> "FAILED"

\* variant: the page number is not padded
PageFileName_NotPadded(n, method) == "page_" \o ToString(n) \o "_" \o method \o ".md"
\* name and body of the artifact of page n
PageFileName(n, method) == "page_" \o ZeroPad4(n) \o "_" \o method \o ".md"
PageBody(n, page) ==
    "# Page " \o ToString(n) \o " - " \o Upper(page.method) \o "\n\n" \o page.text

\* _save_extracted_content_to_service1_folder / _save_extracted_content_to_s3:
\* the artifacts of the pages, in page order, and the returned file map
ArtifactKey(backend, d, n, method) ==
    OutputRoot(backend) \o "/" \o OutputPrefix(d) \o "/" \o PageFileName(n, method)
Artifacts(backend, d, pages) ==
    [n \in DOMAIN pages |->
        [key |-> ArtifactKey(backend, d, n, pages[n].method), body |-> PageBody(n, pages[n])]]
FilePaths(backend, d, pages) ==
    [n \in DOMAIN pages |-> [text_file |-> ArtifactKey(backend, d, n, pages[n].method)]]

\* the store after the first k artifacts were written (a put overwrites)
Put(st, arts, k) ==
    LET keys == {arts[i].key : i \in 1..k}
    IN  [key \in DOMAIN st \cup keys |->
            IF key \in keys
            THEN arts[CHOOSE i \in 1..k : arts[i].key = key /\
                                           \A j \in (i + 1)..k : arts[j].key # key].body
            ELSE st[key]]

\* ------------------------------------------------------------------ passwords
\* candidate passwords: non-empty strings
Passwords == {"pw" \o ToString(i) : i \in 1..NumPasswords}

\* Python truthiness of an optional string: neither None nor ""
Truthy(p) == p # NoValue /\ p # ""

InSeq(x, sq) == \E i \in DOMAIN sq : sq[i] = x

\* variant: every source is appended without the "not in passwords" test
GetAllPasswordsForFile_NoDedupe(provided, saved, cached, default) ==
    LET p1 == IF Truthy(provided) THEN <<provided>> ELSE <<>>
        p2 == IF saved # NoValue THEN Append(p1, saved) ELSE p1
        p3 == IF cached # NoValue THEN Append(p2, cached) ELSE p2
        p4 == IF Truthy(default) THEN Append(p3, default) ELSE p3
    IN  Append(p4, NoValue)

\* get_all_passwords_for_file: provided password if truthy, the CSV entry and
\* the cached entry if the basename has one, the default password if truthy,
\* each only if not yet in the list; then None.  (NoValue is None in the list
\* and "no entry for the basename" for the CSV file and the cache.)
GetAllPasswordsForFile(provided, saved, cached, default) ==
    LET p1 == IF Truthy(provided) THEN <<provided>> ELSE <<>>
        p2 == IF saved # NoValue /\ ~InSeq(saved, p1) THEN Append(p1, saved) ELSE p1
        p3 == IF cached # NoValue /\ ~InSeq(cached, p2) THEN Append(p2, cached) ELSE p2
        p4 == IF Truthy(default) /\ ~InSeq(default, p3) THEN Append(p3, default) ELSE p3
    IN  Append(p4, NoValue)

Truncate(sq) == SubSeq(sq, 1, IF Len(sq) < MaxAttempts THEN Len(sq) ELSE MaxAttempts)

IsNotNone(x) == x # NoValue

NewEnhancedResult ==
    [success |-> FALSE, total_pages |-> 0, pages |-> <<>>, error_message |-> NoValue,
     password_required |-> FALSE, password_used |-> NoValue, attempts_made |-> 0,
     suggested_passwords |-> <<>>]

\* the call before it starts; opened lists the candidates that got past
\* needs_pass / authenticate, raised the messages of the exceptions of fitz.open
EnhancedIdle ==
    [pc |-> "idle", passwords_to_try |-> <<>>, attempt |-> 0, opened |-> <<>>,
     raised |-> <<>>, result |-> NewEnhancedResult]

\* ------------------------------------------------------------------ password CSV
\* text is a sequence of characters; a word that holds none of the special
\* characters of the CSV dialect counts as one character
CsvChars == {"x", "password", ",", "\"", "\r", "\n"}
CsvSpecials == {",", "\"", "\r", "\n"}
Header == << <<"pdf_filename">>, <<"password">> >>

\* basenames of one directory, in the order sorted() gives them
FileNames == << <<"other.pdf">>, <<"pdf_filename">>, <<"source.pdf">> >>
\* passwords a save is called with: non-empty texts
CsvPasswords == UNION {[1..n -> CsvChars] : n \in 1..MaxPasswordLen}

RECURSIVE Flatten(_)
Flatten(sqs) == IF sqs = <<>> THEN <<>> ELSE Head(sqs) \o Flatten(Tail(sqs))

\* csv.writer, default dialect: a field with a delimiter, a quote or a line
\* end is quoted and its quotes are doubled; fields are joined by commas and
\* the row ends with \r\n
WriteField(f) ==
    IF \E i \in DOMAIN f : f[i] \in CsvSpecials
    THEN <<"\"">> \o Flatten([i \in DOMAIN f |->
                                  IF f[i] = "\"" THEN <<"\"", "\"">> ELSE <<f[i]>>])
         \o <<"\"">>
    ELSE f
WriteRow(row) == WriteField(row[1]) \o <<",">> \o WriteField(row[2]) \o <<"\r", "\n">>

\* sorted(passwords.items()): the entries in the order of their filenames
SortedItems(passwords) ==
    LET Present(name) == name \in DOMAIN passwords
    IN  [i \in DOMAIN SelectSeq(FileNames, Present) |->
            << SelectSeq(FileNames, Present)[i],
               passwords[SelectSeq(FileNames, Present)[i]] >>]

\* the file save_password_to_csv writes (newline=""): header, then the entries
WriteCsv(passwords) ==
    WriteRow(Header)
    \o Flatten([i \in DOMAIN SortedItems(passwords) |-> WriteRow(SortedItems(passwords)[i])])

\* open(..., "r") without newline="": \r\n and \r are read as \n
RECURSIVE UniversalNewlines(_)
UniversalNewlines(text) ==
    IF text = <<>> THEN <<>>
    ELSE IF Head(text) = "\r"
         THEN IF Len(text) >= 2 /\ text[2] = "\n"
              THEN <<"\n">> \o UniversalNewlines(SubSeq(text, 3, Len(text)))
              ELSE <<"\n">> \o UniversalNewlines(Tail(text))
         ELSE <<Head(text)>> \o UniversalNewlines(Tail(text))

\* csv.reader, default dialect, over the text from position i on; st is the
\* state of the parser, field and row what it has collected (line ends after
\* a row are eaten, so empty lines give no row)
RECURSIVE ParseCsv(_, _, _, _, _, _)
ParseCsv(text, i, st, field, row, parsed) ==
    IF i > Len(text)
    THEN IF st = "start_row" THEN parsed ELSE Append(parsed, Append(row, field))
    ELSE LET c == text[i]
             EndRow == ParseCsv(text, i + 1, "start_row", <<>>, <<>>,
                                Append(parsed, Append(row, field)))
             EndField == ParseCsv(text, i + 1, "start_field", <<>>, Append(row, field), parsed)
             Add(next) == ParseCsv(text, i + 1, next, Append(field, c), row, parsed)
         IN  CASE st = "start_row" /\ c \in {"\r", "\n"} ->
                    ParseCsv(text, i + 1, "start_row", <<>>, <<>>, parsed)
               [] st \in {"start_row", "start_field"} /\ c = "\"" ->
                    ParseCsv(text, i + 1, "in_quoted", field, row, parsed)
               [] st \in {"start_row", "start_field", "in_field", "quote_in_quoted"}
                     /\ c = "," -> EndField
               [] st \in {"start_field", "in_field", "quote_in_quoted"}
                     /\ c \in {"\r", "\n"} -> EndRow
               [] st = "in_quoted" /\ c = "\"" ->
                    ParseCsv(text, i + 1, "quote_in_quoted", field, row, parsed)
               [] st = "in_quoted" /\ c # "\"" -> Add("in_quoted")
               [] st = "quote_in_quoted" /\ c = "\"" -> Add("in_quoted")
               [] OTHER -> Add("in_field")

\* load_saved_passwords: no file gives no entries; the first row is skipped
\* when it is the header; every row of two or more fields sets its entry,
\* later rows winning (an exception keeps the entries read so far)
RECURSIVE EntriesOf(_, _)
EntriesOf(parsed, passwords) ==
    IF parsed = <<>> THEN passwords
    ELSE LET r == Head(parsed)
         IN  EntriesOf(Tail(parsed),
                       IF Len(r) >= 2
                       THEN [n \in DOMAIN passwords \cup {r[1]} |->
                                IF n = r[1] THEN r[2] ELSE passwords[n]]
                       ELSE passwords)
LoadSavedPasswords(file) ==
    IF ~file.exists THEN <<>>
    ELSE LET parsed == ParseCsv(UniversalNewlines(file.text), 1, "start_row", <<>>, <<>>, <<>>)
         IN  IF parsed = <<>> THEN <<>>
             ELSE IF Head(parsed) # <<>> /\ Head(parsed) # Header
                  THEN IF Len(Head(parsed)) < 2 THEN <<>>
                       ELSE EntriesOf(parsed, <<>>)
                  ELSE EntriesOf(Tail(parsed), <<>>)

\* save_password_to_csv: the loaded entries with the new one, written whole
SavePasswordToCsv(file, name, password) ==
    LET loaded == LoadSavedPasswords(file)
        passwords == [n \in DOMAIN loaded \cup {name} |->
                         IF n = name THEN password ELSE loaded[n]]
    IN  [exists |-> TRUE, text |-> WriteCsv(passwords)]

\* the directory before any save: no file; saved lists what was saved so far
NoPasswordFile ==
    [file |-> [exists |-> FALSE, text |-> <<>>], cache |-> <<>>, saved |-> <<>>, saves |-> 0]

\* ------------------------------------------------------------------ initial state
NoExtraction ==
    [success |-> FALSE, total_pages |-> 0, pages |-> <<>>, error_message |-> NoValue,
     password_required |-> FALSE]
NoResult ==
    [returned |-> FALSE, doc_id |-> 0, success |-> FALSE, error |-> NoValue,
     total_pages |-> 0]

\* ------------------------------------------------------------------ cleanup
\* time.sleep(300) of cleanup_later, in seconds
CleanupDelay == 300

\* no terminal call was made, no cleanup thread sleeps; `ended` notes for each
\* batch id when and by which call its snapshot became terminal
CleanupIdle == [now |-> 0, threads |-> {}, ended |-> <<>>]

\* del self._progress_trackers[batch_id]
Remove(t, id) == [i \in (DOMAIN t) \ {id} |-> t[i]]

\* ------------------------------------------------------------------ config
\* the sections the file can have, in the order they appear in it
ConfigSections == {"SERVICE1", "DATABASE"}
SectionOrders ==
    {<<>>, <<"SERVICE1">>, <<"DATABASE">>, <<"SERVICE1", "DATABASE">>,
     <<"DATABASE", "SERVICE1">>}

\* what a section can say about the key: nothing, an empty value, a value
\* with a lone "%" (which BasicInterpolation rejects), a plain value
OptionValues(sec) == {NoValue, "", "50%", "value_in_" \o sec}

ConfigFiles ==
    {[sections |-> order, options |-> opts, default |-> dflt] :
        order \in SectionOrders, opts \in UNION {[S -> UNION {OptionValues(s) : s \in S}] : S \in SUBSET ConfigSections},
        dflt \in OptionValues("DEFAULT")}

\* the files whose options are those of their sections
WellFormed(file) ==
    /\ DOMAIN file.options = {file.sections[i] : i \in DOMAIN file.sections}
    /\ \A s \in DOMAIN file.options : file.options[s] \in OptionValues(s)

\* the option as a section proxy sees it: the section's own, else DEFAULT's
Option(file, sec) ==
    IF file.options[sec] # NoValue THEN file.options[sec] ELSE file.default

InterpolationRaises(v) == v = "50%"

\* self._config.get(section, key, fallback=fallback); "raise" for an exception
ConfigGet(file, section, fallback) ==
    IF section \notin DOMAIN file.options THEN fallback
    ELSE LET v == Option(file, section)
         IN  IF v = NoValue THEN fallback
             ELSE IF InterpolationRaises(v) THEN "raise" ELSE v

\* for sec in self._config.sections(): if key in self._config[sec]: return ...
RECURSIVE SearchAllSections(_, _, _)
SearchAllSections(file, i, fallback) ==
    IF i > Len(file.sections) THEN fallback
    ELSE LET v == Option(file, file.sections[i])
         IN  IF v = NoValue THEN SearchAllSections(file, i + 1, fallback)
             ELSE IF InterpolationRaises(v) THEN "raise" ELSE v

\* Service1ConfigManager.get_var(key, section, fallback)
GetVar(env, file, section, fallback) ==
    IF env # NoValue /\ env # "" THEN env
    ELSE LET found == IF section # NoValue /\ section # ""
                      THEN ConfigGet(file, section, fallback)
                      ELSE SearchAllSections(file, 1, fallback)
         IN  IF found = "raise" THEN fallback ELSE found

ConfigIdle ==
    [pc |-> "idle", env |-> NoValue,
     file |-> [sections |-> <<>>, options |-> <<>>, default |-> NoValue],
     section |-> NoValue, fallback |-> NoValue, result |-> NoValue]

\* ------------------------------------------------------------------ page extraction
\* min_text_length of the service's PDFProcessor; the length below which
\* _extract_page_with_tesseract_enhanced retries
MinTextLength == 250
MinOcrLength == 10

\* lengths a stripped text can have, around the two thresholds
TextLengths == {0, MinOcrLength - 1, MinOcrLength, MinTextLength - 1, MinTextLength}

\* what a page gives each reader: whether doc[page_num] raises, whether
\* page.get_text() raises, length and _is_garbage_text of the fitz text, whether
\* the OCR raises, length and _is_garbage_text of the text of
\* image_to_string(image, lang="eng"), and the length of the text a pass with
\* "--psm 3 --oem 3" would read
PageInputs ==
    [access_raises : BOOLEAN, fitz_raises : BOOLEAN, fitz_len : TextLengths,
     fitz_garbage : BOOLEAN, ocr_raises : BOOLEAN, ocr_len : TextLengths,
     ocr_garbage : BOOLEAN, psm3_len : TextLengths]

\* _is_garbage_text is true of a text that is empty when stripped
EmptyIsGarbage(p) ==
    /\ p.fitz_len = 0 => p.fitz_garbage
    /\ p.ocr_len = 0 => p.ocr_garbage

\* a text is known by the pass that read it and its stripped length
TextOf(pass, n) == [pass |-> pass, len |-> n]
NoText == TextOf("none", 0)

FailedPage(msg) == [text |-> NoText, method |-> "failed", layout |-> "{}", error |-> msg]

\* _extract_with_tesseract: one pass with the default page segmentation
ExtractWithTesseract(p) == TextOf("eng", p.ocr_len)

\* _extract_page_with_tesseract_enhanced (called from nowhere): a pass with
\* "--psm 6 --oem 3", read here as the first-pass text, and when that is short
\* or garbage a second pass with "--psm 3 --oem 3"
ExtractPageWithTesseractEnhanced(p, available) ==
    IF ~available \/ p.ocr_raises THEN NoText
    ELSE IF p.ocr_len < MinOcrLength \/ p.ocr_garbage
         THEN TextOf("psm3", p.psm3_len)
         ELSE TextOf("psm6", p.ocr_len)

\* variant: the minimum length is asked of the OCR text as well
ExtractPageTextOf_OcrMinLength(p, available) ==
    IF ~p.fitz_raises /\ p.fitz_len >= MinTextLength /\ ~p.fitz_garbage
    THEN [text |-> TextOf("fitz", p.fitz_len), method |-> "fitz", layout |-> "fitz",
          error |-> NoValue]
    ELSE IF available /\ p.ocr_len >= MinTextLength
         THEN IF p.ocr_raises
              THEN FailedPage("Both fitz and tesseract failed")
              ELSE [text |-> ExtractWithTesseract(p), method |-> "tesseract",
                    layout |-> "tesseract", error |-> NoValue]
         ELSE FailedPage("Tesseract not available and fitz extraction failed")

\* _extract_page_text for a page p, with PYTESSERACT_AVAILABLE = available
ExtractPageTextOf(p, available) ==
    IF ~p.fitz_raises /\ p.fitz_len >= MinTextLength /\ ~p.fitz_garbage
    THEN [text |-> TextOf("fitz", p.fitz_len), method |-> "fitz", layout |-> "fitz",
          error |-> NoValue]
    ELSE IF available
         THEN IF p.ocr_raises
              THEN FailedPage("Both fitz and tesseract failed")
              ELSE [text |-> ExtractWithTesseract(p), method |-> "tesseract",
                    layout |-> "tesseract", error |-> NoValue]
         ELSE FailedPage("Tesseract not available and fitz extraction failed")

\* the body of the page loop: the record kept in result["pages"] for the page
PageRecord(p, available) ==
    IF p.access_raises THEN FailedPage("page error") ELSE ExtractPageTextOf(p, available)

PageIdle ==
    [pc |-> "idle", available |-> FALSE,
     input |-> [access_raises |-> FALSE, fitz_raises |-> FALSE, fitz_len |-> 0,
                fitz_garbage |-> TRUE, ocr_raises |-> FALSE, ocr_len |-> 0,
                ocr_garbage |-> TRUE, psm3_len |-> 0],
     record |-> FailedPage(NoValue)]

\* ------------------------------------------------------------------ single operations
\* no thread is inside a tracker operation and the lock is free; `actor` is the
\* thread that took the last step
ThreadsIdle ==
    [lock |-> "free", actor |-> "none",
     pc |-> [t \in {"orchestrator", "task", "poller"} |-> "idle"]]
\* threads of the pool that save a password, the passwords they save
WriterThreads == {1, 2}
WriterPasswords == {<<"x">>, <<"password">>}

\* no thread has entered save_successful_password; thread 1 will save for
\* other.pdf, thread 2 for source.pdf; passwords[t] is the dict local to t
WritersIdle ==
    [pc |-> [t \in WriterThreads |-> "idle"],
     name |-> <<FileNames[1], FileNames[3]>>,
     password |-> << <<"x">>, <<"x">> >>,
     passwords |-> << <<>>, <<>> >>]
ReprocessIdle == [doc |-> 0, runs |-> 0, pages |-> <<>>]
\* the requests that start batches; no call of start_extraction was made
Callers == {1, 2}
StartedIdle ==
    [id |-> [c \in Callers |-> NoBatchId], done |-> [c \in Callers |-> FALSE]]

UnitsIdle ==
    /\ page_call = PageIdle
    /\ tracker_threads = ThreadsIdle
    /\ writers = WritersIdle
    /\ reprocess = ReprocessIdle
    /\ started = StartedIdle

\* no call of the PDF processor and no progress query is under way
ProbesIdle ==
    /\ progress_response = NoResponse
    /\ provided_password = NoValue
    /\ saved_passwords = NoValue
    /\ password_cache = NoValue
    /\ default_password = "operations@PRI"
    /\ pdf = [needs_pass |-> FALSE, password |-> NoValue, pages |-> <<>>]
    /\ enhanced = EnhancedIdle
    /\ source = SourceIdle
    /\ password_file = NoPasswordFile
    /\ cleanup = CleanupIdle
    /\ config = ConfigIdle
    /\ UnitsIdle

\* the batch pipeline before any request
BatchInit(req, pages, backend) ==
    /\ request = req
    /\ storage_backend = backend
    /\ store = <<>>
    /\ rows = [d \in Docs |-> NewRow(d, pages[d])]
    /\ db_failures = 0
    /\ service2_enabled \in BOOLEAN
    /\ batch_id = [b \in Batches |-> NoBatchId]
    /\ opc = [b \in Batches |-> "idle"]
    /\ documents = [b \in Batches |-> {}]
    /\ outcome = [b \in Batches |-> "none"]
    /\ running = [b \in Batches |-> 0]
    /\ pc = [w \in Workers |-> "unborn"]
    /\ lock_acquired = [w \in Workers |-> FALSE]
    /\ extraction = [w \in Workers |-> NoExtraction]
    /\ failure = [w \in Workers |-> NoValue]
    /\ service2_success = [w \in Workers |-> "none"]
    /\ result = [w \in Workers |-> NoResult]
    /\ log = [w \in Workers |-> <<>>]
    /\ wrote = [w \in Workers |-> {}]

Init ==
    /\ \E sc \in Scenarios : BatchInit(sc.request, sc.pages, sc.backend)
    /\ trackers = <<>>
    /\ ProbesIdle

\* ------------------------------------------------------------------ router
\* batch_id = f"batch_{int(time.time())}_{len(queue_ids)}"; request b arrives in
\* second b
NewBatchId(b, ids) == <<"batch", b, Cardinality(ids)>>

\* POST /extract: batch_id = request.batch_id or tracker.start_extraction(queue_ids);
\* the orchestrator is started in a background thread; the reply is immediate.
ExtractRequest(b) ==
    /\ opc[b] = "idle"
    /\ IF request[b].batch_id # NoBatchId
       THEN /\ batch_id' = [batch_id EXCEPT ![b] = request[b].batch_id]
            /\ UNCHANGED trackers
       ELSE /\ batch_id' = [batch_id EXCEPT ![b] = NewBatchId(b, request[b].queue_ids)]
            /\ trackers' = StartExtraction(trackers, NewBatchId(b, request[b].queue_ids),
                                           Cardinality(request[b].queue_ids))
    /\ opc' = [opc EXCEPT ![b] = "queued"]
    /\ UNCHANGED <<probes, storage_backend, store, request, rows, db_failures, service2_enabled, documents, outcome, running,
                   pc, lock_acquired, extraction, failure, service2_success, result, log,
                   wrote>>

\* ------------------------------------------------------------------ orchestrator
\* SELECT ... WHERE extraction_id = ANY(ids) AND is_active = true
FetchPending(r, ids) == {d \in Docs : r[d].extraction_id \in ids /\ r[d].is_active}

\* extract_text_for_documents up to the fetch: mark the batch processing, read
\* the rows; with no rows (or a failed read) fail the batch and return.
OrchBegin(b) ==
    /\ opc[b] = "queued"
    /\ \E ok \in DbOutcomes :
        LET docs == IF ok THEN FetchPending(rows, request[b].queue_ids) ELSE {}
            t1 == UpdateProgress(trackers, batch_id[b],
                     [status |-> "processing", current_stage |-> "initializing",
                      current_operation |-> "preparing", progress_percentage |-> 0])
        IN  /\ db_failures' = DbCount(ok)
            /\ documents' = [documents EXCEPT ![b] = docs]
            /\ IF docs = {}
               THEN /\ trackers' = FailExtraction(t1, batch_id[b], MsgNoDocs)
                    /\ opc' = [opc EXCEPT ![b] = "finished"]
                    /\ outcome' = [outcome EXCEPT ![b] = "failed"]
               ELSE /\ trackers' = t1
                    /\ opc' = [opc EXCEPT ![b] = "fetched"]
                    /\ UNCHANGED outcome
    /\ UNCHANGED <<probes, storage_backend, store, request, rows, service2_enabled, batch_id, running, pc, lock_acquired,
                   extraction, failure, service2_success, result, log, wrote>>

\* sum(doc.get("number_of_pages", 0) for doc in documents): the key is always
\* there, so a NULL column is None and the addition raises TypeError
SumRaises(r, ds) == \E d \in ds : r[d].number_of_pages = Null

RECURSIVE SumPages(_, _)
SumPages(r, ds) ==
    IF ds = {} THEN 0
    ELSE LET d == CHOOSE x \in ds : TRUE
         IN  r[d].number_of_pages[1] + SumPages(r, ds \ {d})

\* total pages up front, two progress updates, one task per fetched row.  If
\* the sum raises, the exception leaves extract_text_for_documents and is
\* logged by run_extraction: the thread ends without a tracker call.
OrchSpawn(b) ==
    /\ opc[b] = "fetched"
    /\ IF SumRaises(rows, documents[b])
       THEN /\ opc' = [opc EXCEPT ![b] = "crashed"]
            /\ UNCHANGED <<trackers, pc>>
       ELSE /\ LET total == SumPages(rows, documents[b])
                   t1 == UpdateProgress(trackers, batch_id[b],
                            [current_stage |-> "initializing", current_operation |-> "found",
                             progress_percentage |-> 0, total_pages |-> total,
                             processed_pages |-> 0])
               IN  trackers' = UpdateProgress(t1, batch_id[b],
                            [current_stage |-> "initializing", current_operation |-> "starting",
                             progress_percentage |-> 10])
            /\ pc' = [w \in Workers |->
                        IF w[1] = b /\ w[2] \in documents[b] THEN "start" ELSE pc[w]]
            /\ opc' = [opc EXCEPT ![b] = "gather"]
    /\ UNCHANGED <<probes, storage_backend, store, request, rows, db_failures, service2_enabled, batch_id, documents, outcome,
                   running, lock_acquired, extraction, failure, service2_success, result,
                   log, wrote>>

TasksOf(b) == {w \in Workers : w[1] = b /\ w[2] \in documents[b]}

RECURSIVE SumResultPages(_, _)
SumResultPages(res, ws) ==
    IF ws = {} THEN 0
    ELSE LET w == CHOOSE x \in ws : TRUE
         IN  (IF res[w].success THEN res[w].total_pages ELSE 0)
               + SumResultPages(res, ws \ {w})

\* variant: the batch is completed only when every document succeeded
OrchFinish_AllMustSucceed(b) ==
    /\ opc[b] = "gather"
    /\ \A w \in TasksOf(b) : pc[w] = "done"
    /\ LET results == {result[w] : w \in TasksOf(b)}
           acc == SumResultPages(result, TasksOf(b))
           t1 == UpdateProgress(trackers, batch_id[b],
                    [current_stage |-> "completed", total_pages |-> acc,
                     processed_pages |-> acc])
       IN  IF \A w \in TasksOf(b) : result[w].success
           THEN /\ trackers' = CompleteExtraction(t1, batch_id[b], results)
                /\ outcome' = [outcome EXCEPT ![b] = "completed"]
           ELSE /\ trackers' = FailExtraction(t1, batch_id[b], MsgAllFailed)
                /\ outcome' = [outcome EXCEPT ![b] = "failed"]
    /\ opc' = [opc EXCEPT ![b] = "finished"]
    /\ UNCHANGED <<probes, storage_backend, store, request, rows, db_failures, service2_enabled, batch_id, documents,
                   running, pc, lock_acquired, extraction, failure, service2_success,
                   result, log, wrote>>

\* after gather: last progress update, then complete or fail the batch
OrchFinish(b) ==
    /\ opc[b] = "gather"
    /\ \A w \in TasksOf(b) : pc[w] = "done"
    /\ LET results == {result[w] : w \in TasksOf(b)}
           successful == Cardinality({w \in TasksOf(b) : result[w].success})
           acc == SumResultPages(result, TasksOf(b))
           t1 == UpdateProgress(trackers, batch_id[b],
                    [current_stage |-> "completed", total_pages |-> acc,
                     processed_pages |-> acc])
       IN  IF successful > 0
           THEN /\ trackers' = CompleteExtraction(t1, batch_id[b], results)
                /\ outcome' = [outcome EXCEPT ![b] = "completed"]
           ELSE /\ trackers' = FailExtraction(t1, batch_id[b], MsgAllFailed)
                /\ outcome' = [outcome EXCEPT ![b] = "failed"]
    /\ opc' = [opc EXCEPT ![b] = "finished"]
    /\ UNCHANGED <<probes, storage_backend, store, request, rows, db_failures, service2_enabled, batch_id, documents, running,
                   pc, lock_acquired, extraction, failure, service2_success, result, log,
                   wrote>>


\* ------------------------------------------------------------------ per-document task
\* the task may take a step: it holds the loop, or the loop is free and the
\* task is at the start or at an await whose result has arrived
Holds(w) == running[w[1]] = w[2]
LoopFree(w) == running[w[1]] = 0

Take(w) == [running EXCEPT ![w[1]] = w[2]]
Yield(w) == [running EXCEPT ![w[1]] = 0]

Failed(d, msg) ==
    [returned |-> TRUE, doc_id |-> d, success |-> FALSE, error |-> msg,
     total_pages |-> 0]
Succeeded(d, n) ==
    [returned |-> TRUE, doc_id |-> d, success |-> TRUE, error |-> NoValue,
     total_pages |-> n]

\* the log keeps, per task, each operation issued and the value it carried
LoggedValue(w, op, v) == [log EXCEPT ![w] = Append(@, [op |-> op, value |-> v])]
Logged(w, op) == LoggedValue(w, op, 0)
Wrote(w, ok, field) == IF ok THEN [wrote EXCEPT ![w] = @ \cup {field}] ELSE wrote

\* _set_processing_lock, first statement: SELECT ... WHERE is_processing = TRUE.
\* A row found, or a raised statement, makes the function return False.
SetLockSelect(w) ==
    /\ pc[w] = "start" /\ LoopFree(w)
    /\ running' = Take(w)
    /\ \E ok \in DbOutcomes :
        /\ db_failures' = DbCount(ok)
        /\ IF ok /\ ~rows[w[2]].is_processing
           THEN /\ pc' = [pc EXCEPT ![w] = "lock_update"]
                /\ UNCHANGED <<result>>
           ELSE /\ pc' = [pc EXCEPT ![w] = "release"]
                /\ result' = [result EXCEPT ![w] = Failed(w[2], MsgLocked)]
    /\ UNCHANGED <<probes, storage_backend, store, request, rows, service2_enabled, trackers, batch_id, opc, documents, outcome,
                   lock_acquired, extraction, failure, service2_success, log, wrote>>

\* _set_processing_lock, second statement: the UPDATE that sets the lock, then
\* the progress update "downloading_pdf"
SetLockUpdate(w) ==
    /\ pc[w] = "lock_update" /\ Holds(w)
    /\ \E ok \in DbOutcomes :
        /\ db_failures' = DbCount(ok)
        /\ IF ok
           THEN /\ rows' = LockRow(rows, w[2])
                /\ lock_acquired' = [lock_acquired EXCEPT ![w] = TRUE]
                /\ log' = Logged(w, "lock_acquired")
                /\ trackers' = UpdateProgress(trackers, batch_id[w[1]],
                       [current_document |-> DocId(w[2]), current_stage |-> "downloading_pdf",
                        current_operation |-> "accessing", status |-> "processing"])
                /\ pc' = [pc EXCEPT ![w] = "get_pdf"]
                /\ UNCHANGED result
           ELSE /\ pc' = [pc EXCEPT ![w] = "release"]
                /\ result' = [result EXCEPT ![w] = Failed(w[2], MsgLocked)]
                /\ UNCHANGED <<rows, lock_acquired, log, trackers>>
    /\ UNCHANGED <<probes, storage_backend, store, request, service2_enabled, batch_id, opc, documents, outcome, running,
                   extraction, failure, service2_success, wrote>>

\* get_pdf_file for the row of the task, with whatever URIs the row holds and
\* whatever files exist: source.pdf is there or is copied from a local path,
\* the copy raises, a download is started, or no source is usable
GetPdfFile(w) ==
    /\ pc[w] = "get_pdf" /\ Holds(w)
    /\ \E files \in SUBSET SourceFiles(w[2]), raw \in RawUris, src \in SourceUris,
          copied \in BOOLEAN :
        LET rule == SourceRule(files, w[2], raw, src)
        IN  CASE rule = "existing" \/ (rule \in {"copy_raw", "copy_source"} /\ copied) ->
                    /\ pc' = [pc EXCEPT ![w] = "raw_uri"]
                    /\ UNCHANGED <<running, failure>>
              [] rule \in {"copy_raw", "copy_source"} /\ ~copied ->
                    /\ pc' = [pc EXCEPT ![w] = "exc_status"]
                    /\ failure' = [failure EXCEPT ![w] = MsgCopyError]
                    /\ UNCHANGED running
              [] rule = "download" ->
                    /\ pc' = [pc EXCEPT ![w] = "downloading"]
                    /\ running' = Yield(w)
                    /\ UNCHANGED failure
              [] OTHER ->
                    /\ pc' = [pc EXCEPT ![w] = "fail_status"]
                    /\ failure' = [failure EXCEPT ![w] = MsgNoPdf]
                    /\ UNCHANGED running
    /\ UNCHANGED <<probes, storage_backend, store, request, rows, db_failures, service2_enabled, trackers, batch_id, opc,
                   documents, outcome, lock_acquired, extraction, service2_success,
                   result, log, wrote>>

\* download_pdf_from_url returns, or raises and get_pdf_file returns None
DownloadDone(w) ==
    /\ pc[w] = "downloading" /\ LoopFree(w)
    /\ running' = Take(w)
    /\ \E ok \in BOOLEAN :
        IF ok
        THEN /\ pc' = [pc EXCEPT ![w] = "raw_uri"]
             /\ UNCHANGED failure
        ELSE /\ pc' = [pc EXCEPT ![w] = "fail_status"]
             /\ failure' = [failure EXCEPT ![w] = MsgNoPdf]
    /\ UNCHANGED <<probes, storage_backend, store, request, rows, db_failures, service2_enabled, trackers, batch_id, opc,
                   documents, outcome, lock_acquired, extraction, service2_success,
                   result, log, wrote>>

\* _update_datalake_raw_uri, the progress update "extracting_text", and the
\* hand-over of the extraction to the thread pool (the task suspends)
UpdateDatalakeRawUri(w) ==
    /\ pc[w] = "raw_uri" /\ Holds(w)
    /\ \E ok \in DbOutcomes :
        /\ db_failures' = DbCount(ok)
        /\ rows' = IF ok THEN RawUriRow(rows, w[2], SourcePdfPath(w[2])) ELSE rows
        /\ wrote' = Wrote(w, ok, "datalake_raw_uri")
    /\ log' = Logged(w, "raw_uri")
    /\ trackers' = UpdateProgress(trackers, batch_id[w[1]],
           [current_document |-> DocId(w[2]), current_stage |-> "extracting_text",
            current_operation |-> "extracting", status |-> "processing"])
    /\ pc' = [pc EXCEPT ![w] = "extracting"]
    /\ running' = Yield(w)
    /\ UNCHANGED <<probes, storage_backend, store, request, service2_enabled, batch_id, opc, documents, outcome, lock_acquired,
                   extraction, failure, service2_success, result>>

\* variant: a page with method "failed" makes the whole extraction fail
ExtractPdfText_FailsOnFailedPage(w) ==
    /\ pc[w] = "extracting" /\ LoopFree(w)
    /\ running' = Take(w)
    /\ \E out \in {"ok", "auth_failed", "renderer_error"} :
        IF out = "ok" /\ \A i \in DOMAIN PagesOf(w[2]) :
                            ExtractPageText(PagesOf(w[2])[i]).method # "failed"
        THEN /\ extraction' = [extraction EXCEPT ![w] =
                    [success |-> TRUE, total_pages |-> Len(PagesOf(w[2])),
                     pages |-> ExtractPages(PagesOf(w[2])),
                     error_message |-> NoValue, password_required |-> FALSE]]
             /\ pc' = [pc EXCEPT ![w] = "persist"]
             /\ UNCHANGED failure
        ELSE LET msg == CASE out = "auth_failed" -> AuthFailedMessage(1)
                          [] out = "renderer_error" -> MsgRenderer
                          [] OTHER -> "page failed"
             IN  /\ extraction' = [extraction EXCEPT ![w] =
                        [success |-> FALSE, total_pages |-> 0, pages |-> <<>>,
                         error_message |-> msg,
                         password_required |-> (out = "auth_failed")]]
                 /\ pc' = [pc EXCEPT ![w] = "fail_status"]
                 /\ failure' = [failure EXCEPT ![w] = msg]
    /\ UNCHANGED <<probes, storage_backend, store, request, rows, db_failures, service2_enabled, trackers, batch_id, opc,
                   documents, outcome, lock_acquired, service2_success, result, log,
                   wrote>>

\* _extract_pdf_text returns: a successful result with every page, the
\* failure after the loop (no candidate led to a return; n candidates were
\* tried), or the failure made from an exception that left the processor
ExtractPdfText(w) ==
    /\ pc[w] = "extracting" /\ LoopFree(w)
    /\ running' = Take(w)
    /\ \E out \in {"ok", "auth_failed", "renderer_error"}, n \in 1..MaxAttempts :
        /\ out # "auth_failed" => n = 1
        /\ IF out = "ok"
           THEN /\ extraction' = [extraction EXCEPT ![w] =
                    [success |-> TRUE, total_pages |-> Len(PagesOf(w[2])),
                     pages |-> ExtractPages(PagesOf(w[2])),
                     error_message |-> NoValue, password_required |-> FALSE]]
                /\ pc' = [pc EXCEPT ![w] = "persist"]
                /\ UNCHANGED failure
           ELSE LET msg == IF out = "auth_failed" THEN AuthFailedMessage(n) ELSE MsgRenderer
             IN  /\ extraction' = [extraction EXCEPT ![w] =
                        [success |-> FALSE, total_pages |-> 0, pages |-> <<>>,
                         error_message |-> msg,
                         password_required |-> (out = "auth_failed")]]
                 /\ pc' = [pc EXCEPT ![w] = "fail_status"]
                 /\ failure' = [failure EXCEPT ![w] = msg]
    /\ UNCHANGED <<probes, storage_backend, store, request, rows, db_failures, service2_enabled, trackers, batch_id, opc,
                   documents, outcome, lock_acquired, service2_success, result, log,
                   wrote>>

\* _save_extracted_content_to_service1_folder: every page is written in page
\* order, or the write of some page raises (storage error) after the pages
\* before it were written
SaveExtractedContent(w) ==
    /\ pc[w] = "persist" /\ Holds(w)
    /\ LET pages == extraction[w].pages
           arts == Artifacts(storage_backend, w[2], pages)
       IN  \E k \in 0..Len(pages), ok \in BOOLEAN :
            /\ ok <=> k = Len(pages)
            /\ store' = Put(store, arts, k)
            /\ IF ok
               THEN /\ log' = Logged(w, "pages_persisted")
                    /\ pc' = [pc EXCEPT ![w] = "text_uri"]
                    /\ UNCHANGED failure
               ELSE /\ pc' = [pc EXCEPT ![w] = "exc_status"]
                    /\ failure' = [failure EXCEPT ![w] = MsgStorageError]
                    /\ UNCHANGED log
    /\ UNCHANGED <<probes, storage_backend, request, rows, db_failures, service2_enabled, trackers, batch_id, opc,
                   documents, outcome, running, lock_acquired, extraction,
                   service2_success, result, wrote>>


\* variant: the status is set to 100 first and the text URI written after it
UpdateDatalakeTextUri_AfterStatus(w) ==
    /\ pc[w] = "text_uri" /\ Holds(w)
    /\ \E ok \in DbOutcomes :
        /\ db_failures' = DbCount(ok)
        /\ rows' = IF ok
                   THEN TextUriRow(StatusRow(rows, w[2], 100), w[2], TextUriOf(w[2]))
                   ELSE rows
        /\ wrote' = IF ok THEN [wrote EXCEPT ![w] = @ \cup {"status_100", "datalake_text_uri"}]
                    ELSE wrote
    /\ log' = [log EXCEPT ![w] = @ \o <<[op |-> "status", value |-> 100],
                                         [op |-> "text_uri", value |-> 0]>>]
    /\ trackers' = UpdateProgress(trackers, batch_id[w[1]],
           [current_document |-> DocId(w[2]), current_stage |-> "completed",
            current_operation |-> "extracted", status |-> "completed"])
    /\ pc' = [pc EXCEPT ![w] = "duration"]
    /\ UNCHANGED <<probes, storage_backend, store, request, service2_enabled, batch_id, opc, documents, outcome, running,
                   lock_acquired, extraction, failure, service2_success, result>>

\* _update_datalake_text_uri (its return value is not looked at)
UpdateDatalakeTextUri(w) ==
    /\ pc[w] = "text_uri" /\ Holds(w)
    /\ \E ok \in DbOutcomes :
        /\ db_failures' = DbCount(ok)
        /\ rows' = IF ok THEN TextUriRow(rows, w[2], TextUriOf(w[2])) ELSE rows
        /\ wrote' = Wrote(w, ok, "datalake_text_uri")
    /\ log' = Logged(w, "text_uri")
    /\ pc' = [pc EXCEPT ![w] = "status_ok"]
    /\ UNCHANGED <<probes, storage_backend, store, request, service2_enabled, trackers, batch_id, opc, documents, outcome,
                   running, lock_acquired, extraction, failure, service2_success, result>>

\* _update_queue_status(doc_id, "text_extraction_status", 100), then the
\* progress update that reports the document as completed
UpdateStatusComplete(w) ==
    /\ pc[w] = "status_ok" /\ Holds(w)
    /\ \E ok \in DbOutcomes :
        /\ db_failures' = DbCount(ok)
        /\ rows' = IF ok THEN StatusRow(rows, w[2], 100) ELSE rows
        /\ wrote' = Wrote(w, ok, "status_100")
    /\ log' = LoggedValue(w, "status", 100)
    /\ trackers' = UpdateProgress(trackers, batch_id[w[1]],
           [current_document |-> DocId(w[2]), current_stage |-> "completed",
            current_operation |-> "extracted", status |-> "completed"])
    /\ pc' = [pc EXCEPT ![w] = "duration"]
    /\ UNCHANGED <<probes, storage_backend, store, request, service2_enabled, batch_id, opc, documents, outcome, running,
                   lock_acquired, extraction, failure, service2_success, result>>

\* variant: a raised duration write is not caught in the helper and reaches
\* the except block of the task
UpdateDuration_AbortsOnFailure(w) ==
    /\ pc[w] = "duration" /\ Holds(w)
    /\ \E ok \in DbOutcomes :
        /\ db_failures' = DbCount(ok)
        /\ rows' = IF ok THEN DurationRow(rows, w[2], "seconds") ELSE rows
        /\ wrote' = Wrote(w, ok, "text_extraction_duration_seconds")
        /\ IF ok
           THEN /\ pc' = [pc EXCEPT ![w] = "touch"]
                /\ UNCHANGED failure
           ELSE /\ pc' = [pc EXCEPT ![w] = "exc_status"]
                /\ failure' = [failure EXCEPT ![w] = MsgStorageError]
    /\ log' = Logged(w, "duration")
    /\ UNCHANGED <<probes, storage_backend, store, request, service2_enabled, trackers, batch_id, opc, documents, outcome,
                   running, lock_acquired, extraction, service2_success, result>>

\* _update_text_extraction_duration
UpdateDuration(w) ==
    /\ pc[w] = "duration" /\ Holds(w)
    /\ \E ok \in DbOutcomes :
        /\ db_failures' = DbCount(ok)
        /\ rows' = IF ok THEN DurationRow(rows, w[2], "seconds") ELSE rows
        /\ wrote' = Wrote(w, ok, "text_extraction_duration_seconds")
    /\ log' = Logged(w, "duration")
    /\ pc' = [pc EXCEPT ![w] = "touch"]
    /\ UNCHANGED <<probes, storage_backend, store, request, service2_enabled, trackers, batch_id, opc, documents, outcome,
                   running, lock_acquired, extraction, failure, service2_success, result>>

\* _update_last_processed
UpdateLastProcessed(w) ==
    /\ pc[w] = "touch" /\ Holds(w)
    /\ \E ok \in DbOutcomes :
        /\ db_failures' = DbCount(ok)
        /\ rows' = IF ok THEN LastProcessedRow(rows, w[2]) ELSE rows
        /\ wrote' = Wrote(w, ok, "last_processed_at")
    /\ log' = Logged(w, "last_processed")
    /\ pc' = [pc EXCEPT ![w] = "notify"]
    /\ UNCHANGED <<probes, storage_backend, store, request, service2_enabled, trackers, batch_id, opc, documents, outcome,
                   running, lock_acquired, extraction, failure, service2_success, result>>

\* the call of _call_service2, awaited by the task: with the integration
\* disabled it returns True at once, else the POST is sent and the task waits
\* for the response.  A row without extraction_id skips the call.
CallService2(w) ==
    /\ pc[w] = "notify" /\ Holds(w)
    /\ IF rows[w[2]].extraction_id = 0
       THEN /\ pc' = [pc EXCEPT ![w] = "increment"]
            /\ UNCHANGED <<log, service2_success, running>>
       ELSE /\ log' = Logged(w, "notify")
            /\ IF service2_enabled
               THEN /\ pc' = [pc EXCEPT ![w] = "notify_wait"]
                    /\ running' = Yield(w)
                    /\ UNCHANGED service2_success
               ELSE /\ pc' = [pc EXCEPT ![w] = "increment"]
                    /\ service2_success' = [service2_success EXCEPT ![w] = "True"]
                    /\ UNCHANGED running
    /\ UNCHANGED <<probes, storage_backend, store, request, rows, db_failures, service2_enabled, trackers, batch_id, opc,
                   documents, outcome, lock_acquired, extraction, failure, result,
                   wrote>>

\* variant: an exception of the POST is not caught in _call_service2 and
\* reaches the except block of the task
Service2Response_Propagates(w) ==
    /\ pc[w] = "notify_wait" /\ LoopFree(w)
    /\ running' = Take(w)
    /\ \E o \in NotifyOutcomes :
          IF o \in {"2xx", "non_2xx"}
          THEN /\ service2_success' = [service2_success EXCEPT ![w] =
                                          IF o = "2xx" THEN "True" ELSE "False"]
               /\ pc' = [pc EXCEPT ![w] = "increment"]
               /\ UNCHANGED failure
          ELSE /\ pc' = [pc EXCEPT ![w] = "exc_status"]
               /\ failure' = [failure EXCEPT ![w] = o]
               /\ UNCHANGED service2_success
    /\ UNCHANGED <<probes, storage_backend, store, request, rows, db_failures, service2_enabled, trackers, batch_id, opc,
                   documents, outcome, lock_acquired, extraction, result, log, wrote>>

\* the POST ends: a 2xx status (True), or another status, a timeout, a
\* transport error or any other exception (each logged, False)
Service2Response(w) ==
    /\ pc[w] = "notify_wait" /\ LoopFree(w)
    /\ running' = Take(w)
    /\ \E o \in NotifyOutcomes :
          service2_success' = [service2_success EXCEPT ![w] =
                                   IF o = "2xx" THEN "True" ELSE "False"]
    /\ pc' = [pc EXCEPT ![w] = "increment"]
    /\ UNCHANGED <<probes, storage_backend, store, request, rows, db_failures, service2_enabled, trackers, batch_id, opc,
                   documents, outcome, lock_acquired, extraction, failure, result,
                   log, wrote>>

\* variant: a failed notify makes the task return a failure
IncrementAndReturn_FailsOnDownstream(w) ==
    /\ pc[w] = "increment" /\ Holds(w)
    /\ trackers' = IncrementProcessed(trackers, batch_id[w[1]], extraction[w].total_pages)
    /\ log' = Logged(w, "increment")
    /\ result' = [result EXCEPT ![w] =
                    IF service2_success[w] = "False"
                    THEN Failed(w[2], "Service 2 call failed")
                    ELSE Succeeded(w[2], extraction[w].total_pages)]
    /\ pc' = [pc EXCEPT ![w] = "release"]
    /\ UNCHANGED <<probes, storage_backend, store, request, rows, db_failures, service2_enabled, batch_id, opc, documents,
                   outcome, running, lock_acquired, extraction, failure,
                   service2_success, wrote>>

\* increment_processed(batch_id, processed_pages = total_pages) and the
\* return of the success result
IncrementAndReturn(w) ==
    /\ pc[w] = "increment" /\ Holds(w)
    /\ trackers' = IncrementProcessed(trackers, batch_id[w[1]], extraction[w].total_pages)
    /\ log' = Logged(w, "increment")
    /\ result' = [result EXCEPT ![w] = Succeeded(w[2], extraction[w].total_pages)]
    /\ pc' = [pc EXCEPT ![w] = "release"]
    /\ UNCHANGED <<probes, storage_backend, store, request, rows, db_failures, service2_enabled, batch_id, opc, documents,
                   outcome, running, lock_acquired, extraction, failure,
                   service2_success, wrote>>

\* variant: the failure path also stamps last_processed_at / extracted_at
UpdateStatusFailed_TouchesLastProcessed(w) ==
    /\ pc[w] \in {"fail_status", "exc_status"} /\ Holds(w)
    /\ \E ok \in DbOutcomes :
        /\ db_failures' = DbCount(ok)
        /\ rows' = IF ok THEN LastProcessedRow(StatusRow(rows, w[2], -1), w[2]) ELSE rows
        /\ wrote' = IF ok THEN [wrote EXCEPT ![w] = @ \cup {"status_failed", "last_processed_at"}]
                    ELSE wrote
    /\ log' = [log EXCEPT ![w] = @ \o <<[op |-> "last_processed", value |-> 0],
                                         [op |-> "status", value |-> -1]>>]
    /\ pc' = [pc EXCEPT ![w] = IF pc[w] = "fail_status" THEN "fail_error" ELSE "exc_error"]
    /\ UNCHANGED <<probes, storage_backend, store, request, service2_enabled, trackers, batch_id, opc, documents, outcome,
                   running, lock_acquired, extraction, failure, service2_success, result>>

\* status -1 on an early-return failure (inside try) or in the except block
UpdateStatusFailed(w) ==
    /\ pc[w] \in {"fail_status", "exc_status"} /\ Holds(w)
    /\ \E ok \in DbOutcomes :
        /\ db_failures' = DbCount(ok)
        /\ rows' = IF ok THEN StatusRow(rows, w[2], -1) ELSE rows
        /\ wrote' = Wrote(w, ok, "status_failed")
    /\ log' = LoggedValue(w, "status", -1)
    /\ pc' = [pc EXCEPT ![w] = IF pc[w] = "fail_status" THEN "fail_error" ELSE "exc_error"]
    /\ UNCHANGED <<probes, storage_backend, store, request, service2_enabled, trackers, batch_id, opc, documents, outcome,
                   running, lock_acquired, extraction, failure, service2_success, result>>

\* _update_error_message; the early-return paths return the failure here, the
\* except block goes on to the tracker
UpdateErrorMessage(w) ==
    /\ pc[w] \in {"fail_error", "exc_error"} /\ Holds(w)
    /\ \E ok \in DbOutcomes :
        /\ db_failures' = DbCount(ok)
        /\ rows' = IF ok THEN ErrorRow(rows, w[2], failure[w]) ELSE rows
        /\ wrote' = Wrote(w, ok, "error_message")
    /\ log' = Logged(w, "error")
    /\ IF pc[w] = "fail_error"
       THEN /\ pc' = [pc EXCEPT ![w] = "release"]
            /\ result' = [result EXCEPT ![w] = Failed(w[2], failure[w])]
       ELSE /\ pc' = [pc EXCEPT ![w] = "exc_increment"]
            /\ UNCHANGED result
    /\ UNCHANGED <<probes, storage_backend, store, request, service2_enabled, trackers, batch_id, opc, documents, outcome,
                   running, lock_acquired, extraction, failure, service2_success>>

\* except block: increment_processed(batch_id) "even on failure", then return
ExceptIncrementAndReturn(w) ==
    /\ pc[w] = "exc_increment" /\ Holds(w)
    /\ trackers' = IncrementProcessed(trackers, batch_id[w[1]], 0)
    /\ log' = Logged(w, "increment")
    /\ result' = [result EXCEPT ![w] = Failed(w[2], failure[w])]
    /\ pc' = [pc EXCEPT ![w] = "release"]
    /\ UNCHANGED <<probes, storage_backend, store, request, rows, db_failures, service2_enabled, batch_id, opc, documents,
                   outcome, running, lock_acquired, extraction, failure,
                   service2_success, wrote>>

\* variant: the release sits at the end of the try body, so only a task that
\* returns success releases
ClearProcessingLock_OnlyOnSuccess(w) ==
    /\ pc[w] = "release" /\ Holds(w)
    /\ IF lock_acquired[w] /\ result[w].success
       THEN /\ \E ok \in DbOutcomes :
                /\ db_failures' = DbCount(ok)
                /\ rows' = IF ok THEN UnlockRow(rows, w[2]) ELSE rows
                /\ wrote' = Wrote(w, ok, "is_processing_cleared")
            /\ log' = Logged(w, "release")
       ELSE UNCHANGED <<rows, db_failures, wrote, log>>
    /\ pc' = [pc EXCEPT ![w] = "done"]
    /\ running' = Yield(w)
    /\ UNCHANGED <<probes, storage_backend, store, request, service2_enabled, trackers, batch_id, opc, documents, outcome,
                   lock_acquired, extraction, failure, service2_success, result>>

\* variant: finally releases without looking at lock_acquired
ClearProcessingLock_Unguarded(w) ==
    /\ pc[w] = "release" /\ Holds(w)
    /\ \E ok \in DbOutcomes :
        /\ db_failures' = DbCount(ok)
        /\ rows' = IF ok THEN UnlockRow(rows, w[2]) ELSE rows
        /\ wrote' = wrote
    /\ log' = IF lock_acquired[w] THEN Logged(w, "release") ELSE log
    /\ pc' = [pc EXCEPT ![w] = "done"]
    /\ running' = Yield(w)
    /\ UNCHANGED <<probes, storage_backend, store, request, service2_enabled, trackers, batch_id, opc, documents, outcome,
                   lock_acquired, extraction, failure, service2_success, result>>

\* finally: if lock_acquired, _clear_processing_lock (a raised statement is
\* logged and the row stays as it is); the task ends
ClearProcessingLock(w) ==
    /\ pc[w] = "release" /\ Holds(w)
    /\ IF lock_acquired[w]
       THEN /\ \E ok \in DbOutcomes :
                /\ db_failures' = DbCount(ok)
                /\ rows' = IF ok THEN UnlockRow(rows, w[2]) ELSE rows
                /\ wrote' = Wrote(w, ok, "is_processing_cleared")
            /\ log' = Logged(w, "release")
       ELSE UNCHANGED <<rows, db_failures, wrote, log>>
    /\ pc' = [pc EXCEPT ![w] = "done"]
    /\ running' = Yield(w)
    /\ UNCHANGED <<probes, storage_backend, store, request, service2_enabled, trackers, batch_id, opc, documents, outcome,
                   lock_acquired, extraction, failure, service2_success, result>>

\* ------------------------------------------------------------------ tracker calls
\* batch ids the tracker is called with directly: one with a snapshot, one
\* that was never started
TrackedId == <<"batch", 1, 1>>
UnknownId == <<"batch", 0, 0>>
PolledIds == {TrackedId, UnknownId}

\* snapshots a batch can be in when the tracker is called
TrackedSnapshots ==
    {Merge(NewSnapshot(n), [processed_documents |-> k, total_pages |-> t,
                            processed_pages |-> q]) :
        n \in 0..MaxTrackedDocs, k \in 0..MaxTrackedDocs, t \in 0..MaxTrackedPages,
        q \in 0..MaxTrackedPages}

\* no batch request is made
NoRequests == [b \in Batches |-> [queue_ids |-> {}, batch_id |-> NoBatchId]]

TrackerInit ==
    /\ BatchInit(NoRequests, RecordedAsIs, "local")
    /\ \E snap \in TrackedSnapshots :
          /\ snap["processed_pages"] <= snap["total_pages"]
          /\ snap["processed_documents"] <= snap["total_documents"]
          /\ trackers = (TrackedId :> snap)
    /\ ProbesIdle

\* a call of increment_processed(id, processed_pages = p)
IncrementProcessedCall(id, p) ==
    /\ id \in DOMAIN trackers =>
          /\ trackers[id]["processed_documents"] < MaxTrackedDocs
          /\ trackers[id]["processed_pages"] + p <= trackers[id]["total_pages"]
    /\ trackers' = IncrementProcessed(trackers, id, p)
    /\ UNCHANGED <<batch, probes>>

\* GET /progress/{id}
GetProgressRequest(id) ==
    /\ progress_response' = GetProgressResponse(trackers, id)
    /\ UNCHANGED <<batch, trackers, provided_password, saved_passwords, password_cache,
                   default_password, pdf, enhanced, source, password_file, cleanup, config, units>>

TrackerNext ==
    \/ \E id \in PolledIds, p \in 0..MaxIncrement : IncrementProcessedCall(id, p)
    \/ \E id \in PolledIds : GetProgressRequest(id)

TrackerSpec == TrackerInit /\ [][TrackerNext]_vars

\* ------------------------------------------------------------------ get_pdf_file
\* a call for row d with any URIs in the row and any of the files present
SourceInit ==
    /\ BatchInit(NoRequests, RecordedAsIs, "local")
    /\ trackers = <<>>
    /\ progress_response = NoResponse
    /\ provided_password = NoValue
    /\ saved_passwords = NoValue
    /\ password_cache = NoValue
    /\ default_password = "operations@PRI"
    /\ pdf = [needs_pass |-> FALSE, password |-> NoValue, pages |-> <<>>]
    /\ enhanced = EnhancedIdle
    /\ password_file = NoPasswordFile
    /\ cleanup = CleanupIdle
    /\ config = ConfigIdle
    /\ UnitsIdle
    /\ \E d \in Docs, raw \in RawUris, src \in SourceUris :
          \E files \in SUBSET SourceFiles(d) :
              source = [SourceIdle EXCEPT !.doc = d, !.datalake_raw_uri = raw,
                                          !.source_uri = src, !.files = files]

SourceUnchanged ==
    UNCHANGED <<batch, trackers, progress_response, provided_password, saved_passwords,
                password_cache, default_password, pdf, enhanced, password_file, cleanup, config, units>>

\* get_pdf_file up to its first return or await: the existing file, a copy
\* (shutil.copy2 may raise before it creates source.pdf, or while it writes
\* it, which leaves a partial file), the start of the download, or None
GetPdfFileCall ==
    /\ source.pc = "idle"
    /\ LET d == source.doc
           rule == SourceRule(source.files, d, source.datalake_raw_uri, source.source_uri)
           got == [source EXCEPT !.pc = "returned", !.rule = rule,
                                 !.files = @ \cup {DatalakePdf(d)},
                                 !.result = SourcePdfPath(d)]
       IN  \E copied \in BOOLEAN, partial \in BOOLEAN :
            source' =
              CASE rule = "existing" \/ (rule \in {"copy_raw", "copy_source"} /\ copied) -> got
                [] rule \in {"copy_raw", "copy_source"} /\ ~copied ->
                      [source EXCEPT !.pc = "raised", !.rule = rule,
                                     !.files = IF partial THEN @ \cup {DatalakePdf(d)} ELSE @]
                [] rule = "download" -> [source EXCEPT !.pc = "downloading", !.rule = rule]
                [] OTHER -> [source EXCEPT !.pc = "returned", !.rule = rule,
                                           !.status = -1, !.error = MsgNoPdf]
    /\ SourceUnchanged

\* download_pdf_from_url ends: the file is there, or it raised (another
\* status than 200, a transport error; a partial file may be left) and
\* get_pdf_file returns None
DownloadReturn ==
    /\ source.pc = "downloading"
    /\ \E ok \in BOOLEAN, partial \in BOOLEAN :
        /\ ok => partial
        /\ source' = [source EXCEPT
                !.pc = "returned",
                !.files = IF partial THEN @ \cup {DatalakePdf(source.doc)} ELSE @,
                !.result = IF ok THEN SourcePdfPath(source.doc) ELSE NoValue,
                !.status = IF ok THEN 0 ELSE -1,
                !.error = IF ok THEN NoValue ELSE MsgNoPdf]
    /\ SourceUnchanged

SourceNext == GetPdfFileCall \/ DownloadReturn

SourceSpec == SourceInit /\ [][SourceNext]_vars

\* ------------------------------------------------------------------ password saves
CsvInit ==
    /\ BatchInit(NoRequests, RecordedAsIs, "local")
    /\ trackers = <<>>
    /\ ProbesIdle

\* save_successful_password(path, password): the cache entry, then the file
SaveSuccessfulPassword(name, password) ==
    /\ password_file.saves < MaxSaves
    /\ password_file' =
          [file |-> SavePasswordToCsv(password_file.file, name, password),
           cache |-> [n \in DOMAIN password_file.cache \cup {name} |->
                         IF n = name THEN password ELSE password_file.cache[n]],
           saved |-> [n \in DOMAIN password_file.saved \cup {name} |->
                         IF n = name THEN password ELSE password_file.saved[n]],
           saves |-> password_file.saves + 1]
    /\ UNCHANGED <<batch, trackers, progress_response, provided_password, saved_passwords,
                   password_cache, default_password, pdf, enhanced, source, cleanup,
                   config, units>>

CsvNext ==
    \E i \in DOMAIN FileNames, p \in CsvPasswords : SaveSuccessfulPassword(FileNames[i], p)

CsvSpec == CsvInit /\ [][CsvNext]_vars

\* ------------------------------------------------------------------ snapshot expiry
\* the batches whose snapshots are followed
ExpiryIds == {<<"batch", 1, 1>>, <<"batch", 2, 1>>}

\* two batches are being processed
ExpiryInit ==
    /\ BatchInit(NoRequests, RecordedAsIs, "local")
    /\ trackers = [id \in ExpiryIds |-> Merge(NewSnapshot(1), [status |-> "processing"])]
    /\ ProbesIdle

ExpiryUnchanged ==
    UNCHANGED <<batch, progress_response, provided_password, saved_passwords,
                password_cache, default_password, pdf, enhanced, source, password_file,
                config, units>>

Ended(id, call) ==
    (id :> [at |-> cleanup.now, by |-> call]) @@ cleanup.ended

\* the orchestrator's complete_extraction(id, results): the snapshot, then the
\* start of the cleanup thread
CompleteExtractionCall(id) ==
    /\ id \notin DOMAIN cleanup.ended
    /\ cleanup.now + CleanupDelay <= MaxClock
    /\ trackers' = CompleteExtraction(trackers, id, {})
    /\ cleanup' = [cleanup EXCEPT
                     !.threads = IF id \in DOMAIN trackers
                                 THEN @ \cup {[batch_id |-> id,
                                               wake |-> cleanup.now + CleanupDelay]}
                                 ELSE @,
                     !.ended = Ended(id, "complete")]
    /\ ExpiryUnchanged

\* the orchestrator's fail_extraction(id, error)
FailExtractionCall(id) ==
    /\ id \notin DOMAIN cleanup.ended
    /\ cleanup.now + CleanupDelay <= MaxClock
    /\ trackers' = FailExtraction(trackers, id, MsgAllFailed)
    /\ cleanup' = [cleanup EXCEPT !.ended = Ended(id, "fail")]
    /\ ExpiryUnchanged

\* time passes
Tick ==
    /\ cleanup.now + ClockStep <= MaxClock
    /\ cleanup' = [cleanup EXCEPT !.now = @ + ClockStep]
    /\ UNCHANGED trackers
    /\ ExpiryUnchanged

\* cleanup_later after its sleep: delete the snapshot if it is still there
CleanupLater(th) ==
    /\ th \in cleanup.threads
    /\ th.wake <= cleanup.now
    /\ trackers' = IF th.batch_id \in DOMAIN trackers
                   THEN Remove(trackers, th.batch_id) ELSE trackers
    /\ cleanup' = [cleanup EXCEPT !.threads = @ \ {th}]
    /\ ExpiryUnchanged

CleanupThreads == \E th \in cleanup.threads : CleanupLater(th)

ExpiryNext ==
    \/ \E id \in ExpiryIds : CompleteExtractionCall(id)
    \/ \E id \in ExpiryIds : FailExtractionCall(id)
    \/ Tick
    \/ CleanupThreads

\* the clock advances and a cleanup thread whose sleep is over runs
ExpirySpec ==
    ExpiryInit /\ [][ExpiryNext]_vars /\ WF_vars(Tick) /\ WF_vars(CleanupThreads)

\* ------------------------------------------------------------------ get_var
\* a call with any environment value, file, section and fallback
ConfigInit ==
    /\ BatchInit(NoRequests, RecordedAsIs, "local")
    /\ trackers = <<>>
    /\ progress_response = NoResponse
    /\ provided_password = NoValue
    /\ saved_passwords = NoValue
    /\ password_cache = NoValue
    /\ default_password = "operations@PRI"
    /\ pdf = [needs_pass |-> FALSE, password |-> NoValue, pages |-> <<>>]
    /\ enhanced = EnhancedIdle
    /\ source = SourceIdle
    /\ password_file = NoPasswordFile
    /\ cleanup = CleanupIdle
    /\ UnitsIdle
    /\ \E env \in {NoValue, "", "value_in_env"}, file \in ConfigFiles,
          section \in {NoValue, ""} \cup ConfigSections,
          fallback \in {NoValue, "fallback"} :
          /\ WellFormed(file)
          /\ config = [ConfigIdle EXCEPT !.env = env, !.file = file,
                                         !.section = section, !.fallback = fallback]

GetVarCall ==
    /\ config.pc = "idle"
    /\ config' = [config EXCEPT
                    !.pc = "returned",
                    !.result = GetVar(config.env, config.file, config.section,
                                      config.fallback)]
    /\ UNCHANGED <<batch, trackers, progress_response, provided_password, saved_passwords,
                   password_cache, default_password, pdf, enhanced, source, password_file,
                   cleanup, units>>

ConfigNext == GetVarCall

ConfigSpec == ConfigInit /\ [][ConfigNext]_vars

\* ------------------------------------------------------------------ _extract_page_text
\* the page loop reaches any page, with or without the OCR packages installed
PageInit ==
    /\ BatchInit(NoRequests, RecordedAsIs, "local")
    /\ trackers = <<>>
    /\ progress_response = NoResponse
    /\ provided_password = NoValue
    /\ saved_passwords = NoValue
    /\ password_cache = NoValue
    /\ default_password = "operations@PRI"
    /\ pdf = [needs_pass |-> FALSE, password |-> NoValue, pages |-> <<>>]
    /\ enhanced = EnhancedIdle
    /\ source = SourceIdle
    /\ password_file = NoPasswordFile
    /\ cleanup = CleanupIdle
    /\ config = ConfigIdle
    /\ tracker_threads = ThreadsIdle
    /\ writers = WritersIdle
    /\ reprocess = ReprocessIdle
    /\ started = StartedIdle
    /\ \E p \in PageInputs, available \in BOOLEAN :
          /\ EmptyIsGarbage(p)
          /\ page_call = [PageIdle EXCEPT !.input = p, !.available = available]

ExtractPageTextCall ==
    /\ page_call.pc = "idle"
    /\ page_call' = [page_call EXCEPT
                       !.pc = "returned",
                       !.record = PageRecord(page_call.input, page_call.available)]
    /\ UNCHANGED <<batch, trackers, progress_response, provided_password, saved_passwords,
                   password_cache, default_password, pdf, enhanced, source, password_file,
                   cleanup, config, tracker_threads, writers, reprocess, started>>

PageNext == ExtractPageTextCall

PageSpec == PageInit /\ [][PageNext]_vars

\* ------------------------------------------------------------------ tracker lock
\* threads that call the tracker at the same time: the batch's background
\* thread, a per-document task of a batch with the same id, an HTTP request
TrackerThreads == {"orchestrator", "task", "poller"}

LockInit ==
    /\ BatchInit(NoRequests, RecordedAsIs, "local")
    /\ trackers = (TrackedId :> Merge(NewSnapshot(MaxTrackedDocs), [status |-> "processing"]))
    /\ progress_response = NoResponse
    /\ provided_password = NoValue
    /\ saved_passwords = NoValue
    /\ password_cache = NoValue
    /\ default_password = "operations@PRI"
    /\ pdf = [needs_pass |-> FALSE, password |-> NoValue, pages |-> <<>>]
    /\ enhanced = EnhancedIdle
    /\ source = SourceIdle
    /\ password_file = NoPasswordFile
    /\ cleanup = CleanupIdle
    /\ config = ConfigIdle
    /\ page_call = PageIdle
    /\ writers = WritersIdle
    /\ reprocess = ReprocessIdle
    /\ started = StartedIdle
    /\ tracker_threads = ThreadsIdle

LockUnchanged ==
    UNCHANGED <<batch, provided_password, saved_passwords, password_cache,
                default_password, pdf, enhanced, source, password_file, cleanup, config,
                page_call, writers, reprocess, started>>

\* thread t moves from pc `from` to pc `to`; holder is the lock's next holder
Step(t, from, to, holder) ==
    /\ tracker_threads.pc[t] = from
    /\ tracker_threads' = [tracker_threads EXCEPT !.pc[t] = to, !.lock = holder,
                                                  !.actor = t]

\* `with self._progress_lock:` entered by thread t for operation op
AcquireLock(t, op) ==
    /\ tracker_threads.lock = "free"
    /\ Step(t, "idle", op, t)
    /\ UNCHANGED <<trackers, progress_response>>
    /\ LockUnchanged

\* get_progress inside the lock, up to its return
GetProgressLocked(t) ==
    /\ Step(t, "get_progress", "idle", "free")
    /\ progress_response' = GetProgressResponse(trackers, TrackedId)
    /\ UNCHANGED trackers
    /\ LockUnchanged

\* update_progress inside the lock
UpdateProgressLocked(t) ==
    /\ Step(t, "update_progress", "idle", "free")
    /\ trackers' = UpdateProgress(trackers, TrackedId,
                       [current_stage |-> "extracting_text", status |-> "processing"])
    /\ UNCHANGED progress_response
    /\ LockUnchanged

\* increment_processed inside the lock
IncrementProcessedLocked(t) ==
    /\ Step(t, "increment_processed", "idle", "free")
    /\ trackers' = IncrementProcessed(trackers, TrackedId, 0)
    /\ UNCHANGED progress_response
    /\ LockUnchanged

\* fail_extraction inside the lock: the lookup of the snapshot, nothing else
FailExtractionLocked(t) ==
    /\ Step(t, "fail_extraction",
            IF TrackedId \in DOMAIN trackers THEN "fail_status" ELSE "done", "free")
    /\ UNCHANGED <<trackers, progress_response>>
    /\ LockUnchanged

\* tracker["status"] = "failed", after the with block
FailWriteStatus(t) ==
    /\ Step(t, "fail_status", "fail_error", tracker_threads.lock)
    /\ trackers' = [trackers EXCEPT ![TrackedId] = Merge(@, [status |-> "failed"])]
    /\ UNCHANGED progress_response
    /\ LockUnchanged

\* tracker["error"] = error, after the with block
FailWriteError(t) ==
    /\ Step(t, "fail_error", "done", tracker_threads.lock)
    /\ trackers' = [trackers EXCEPT ![TrackedId] = Merge(@, [error |-> MsgAllFailed])]
    /\ UNCHANGED progress_response
    /\ LockUnchanged

LockNext ==
    \/ AcquireLock("orchestrator", "fail_extraction")
    \/ FailExtractionLocked("orchestrator")
    \/ FailWriteStatus("orchestrator")
    \/ FailWriteError("orchestrator")
    \/ AcquireLock("task", "update_progress")
    \/ UpdateProgressLocked("task")
    \/ /\ trackers[TrackedId]["processed_documents"] < MaxTrackedDocs
       /\ AcquireLock("task", "increment_processed")
    \/ IncrementProcessedLocked("task")
    \/ AcquireLock("poller", "get_progress")
    \/ GetProgressLocked("poller")

LockSpec == LockInit /\ [][LockNext]_vars

\* ------------------------------------------------------------------ concurrent saves
\* the file before the two saves: absent, or holding one earlier entry
EarlierFiles ==
    {[exists |-> FALSE, text |-> <<>>],
     [exists |-> TRUE, text |-> WriteCsv(FileNames[2] :> <<"x">>)]}

\* two pool threads are about to save the passwords of two files of one
\* directory
WritersInit ==
    /\ BatchInit(NoRequests, RecordedAsIs, "local")
    /\ trackers = <<>>
    /\ progress_response = NoResponse
    /\ provided_password = NoValue
    /\ saved_passwords = NoValue
    /\ password_cache = NoValue
    /\ default_password = "operations@PRI"
    /\ pdf = [needs_pass |-> FALSE, password |-> NoValue, pages |-> <<>>]
    /\ enhanced = EnhancedIdle
    /\ source = SourceIdle
    /\ cleanup = CleanupIdle
    /\ config = ConfigIdle
    /\ page_call = PageIdle
    /\ tracker_threads = ThreadsIdle
    /\ reprocess = ReprocessIdle
    /\ started = StartedIdle
    /\ \E file \in EarlierFiles : password_file = [NoPasswordFile EXCEPT !.file = file]
    /\ \E p1, p2 \in WriterPasswords :
          writers = [WritersIdle EXCEPT !.password = <<p1, p2>>]

WritersUnchanged ==
    UNCHANGED <<batch, trackers, progress_response, provided_password, saved_passwords,
                password_cache, default_password, pdf, enhanced, source, cleanup, config,
                page_call, tracker_threads, reprocess, started>>

\* cache_successful_password: self.password_cache[filename] = password
CacheSuccessfulPassword(t) ==
    /\ writers.pc[t] = "idle"
    /\ writers' = [writers EXCEPT !.pc[t] = "load"]
    /\ password_file' =
          [password_file EXCEPT
              !.cache = (writers.name[t] :> writers.password[t]) @@ @,
              !.saved = (writers.name[t] :> writers.password[t]) @@ @,
              !.saves = @ + 1]
    /\ WritersUnchanged

\* save_password_to_csv: passwords = load_saved_passwords(...); passwords[filename] = password
SaveLoad(t) ==
    /\ writers.pc[t] = "load"
    /\ writers' = [writers EXCEPT
                     !.pc[t] = "open",
                     !.passwords[t] = (writers.name[t] :> writers.password[t])
                                        @@ LoadSavedPasswords(password_file.file)]
    /\ UNCHANGED password_file
    /\ WritersUnchanged

\* password_file.open("w"): the file is created or truncated
SaveOpen(t) ==
    /\ writers.pc[t] = "open"
    /\ writers' = [writers EXCEPT !.pc[t] = "write"]
    /\ password_file' = [password_file EXCEPT !.file = [exists |-> TRUE, text |-> <<>>]]
    /\ WritersUnchanged

\* the rows reach the file when the with block closes it: they are written
\* from offset 0 over whatever the file holds by then
SaveWrite(t) ==
    /\ writers.pc[t] = "write"
    /\ writers' = [writers EXCEPT !.pc[t] = "done"]
    /\ LET new == WriteCsv(writers.passwords[t])
           old == password_file.file.text
       IN  password_file' =
              [password_file EXCEPT
                  !.file = [exists |-> TRUE,
                            text |-> new \o SubSeq(old, Len(new) + 1, Len(old))]]
    /\ WritersUnchanged

\* variant: the whole save is one step
SaveStep_Serialized(t) ==
    /\ \A u \in WriterThreads : writers.pc[u] \in {"idle", "load", "done"}
    /\ \/ CacheSuccessfulPassword(t)
       \/ /\ writers.pc[t] = "load"
          /\ writers' = [writers EXCEPT !.pc[t] = "done"]
          /\ password_file' =
                [password_file EXCEPT
                    !.file = SavePasswordToCsv(@, writers.name[t], writers.password[t])]
          /\ WritersUnchanged

\* a step of save_successful_password in thread t
SaveStep(t) ==
    \/ CacheSuccessfulPassword(t)
    \/ SaveLoad(t)
    \/ SaveOpen(t)
    \/ SaveWrite(t)

WritersNext == \E t \in WriterThreads : SaveStep(t)

WritersSpec == WritersInit /\ [][WritersNext]_vars

\* ------------------------------------------------------------------ start_extraction
\* no request was made yet
StartInit ==
    /\ BatchInit(NoRequests, RecordedAsIs, "local")
    /\ trackers = <<>>
    /\ ProbesIdle

StartUnchanged ==
    UNCHANGED <<batch, progress_response, provided_password, saved_passwords,
                password_cache, default_password, pdf, enhanced, source, password_file,
                config, page_call, tracker_threads, writers, reprocess>>

\* variant: the id also carries the number of the call
StartedBatchId_Numbered(c, now, n) == <<"batch", now, n, c>>

\* batch_id = f"batch_{int(time.time())}_{len(queue_ids)}"
StartedBatchId(c, now, n) == <<"batch", now, n>>

\* POST /extract number c with n queue ids and no batch_id: start_extraction
StartExtractionCall(c, n) ==
    /\ started.id[c] = NoBatchId
    /\ cleanup.now + CleanupDelay <= MaxClock
    /\ LET id == StartedBatchId(c, cleanup.now, n)
       IN  /\ started' = [started EXCEPT !.id[c] = id]
           /\ trackers' = StartExtraction(trackers, id, n)
    /\ UNCHANGED cleanup
    /\ StartUnchanged

\* a document of batch c finished: increment_processed(batch_id)
StartedIncrement(c) ==
    /\ started.id[c] # NoBatchId /\ ~started.done[c]
    /\ started.id[c] \in DOMAIN trackers
    /\ trackers[started.id[c]]["processed_documents"] < MaxStartedDocs
    /\ trackers' = IncrementProcessed(trackers, started.id[c], 0)
    /\ UNCHANGED <<started, cleanup>>
    /\ StartUnchanged

\* batch c ends: complete_extraction(batch_id, results) and its cleanup thread
StartedComplete(c) ==
    /\ started.id[c] # NoBatchId /\ ~started.done[c]
    /\ cleanup.now + CleanupDelay <= MaxClock
    /\ started' = [started EXCEPT !.done[c] = TRUE]
    /\ trackers' = CompleteExtraction(trackers, started.id[c], {})
    /\ cleanup' = [cleanup EXCEPT
                     !.threads = IF started.id[c] \in DOMAIN trackers
                                 THEN @ \cup {[batch_id |-> started.id[c],
                                               wake |-> cleanup.now + CleanupDelay]}
                                 ELSE @]
    /\ StartUnchanged

StartNext ==
    \/ \E c \in Callers, n \in 1..MaxStartedDocs : StartExtractionCall(c, n)
    \/ \E c \in Callers : StartedIncrement(c)
    \/ \E c \in Callers : StartedComplete(c)
    \/ Tick
    \/ CleanupThreads

StartSpec == StartInit /\ [][StartNext]_vars

\* ------------------------------------------------------------------ ReprocessSpec
\* One document is processed successfully several times (the batch fetch takes
\* a row whatever its status).  Between two runs the record of a page can
\* change: the OCR engine raises on one run and not on the next, or is
\* installed in between, or the PDF in the datalake is replaced by one with
\* another number of pages.
ReprocessInit ==
    /\ \E k \in Backends : BatchInit(NoRequests, RecordedAsIs, k)
    /\ trackers = <<>>
    /\ ProbesIdle

ReprocessUnchanged ==
    UNCHANGED <<request, rows, db_failures, service2_enabled, trackers, batch_id, opc,
                documents, outcome, running, pc, lock_acquired, extraction, failure,
                service2_success, result, log, wrote, storage_backend,
                progress_response, provided_password, saved_passwords, password_cache,
                default_password, pdf, enhanced, source, password_file, cleanup, config,
                page_call, tracker_threads, writers, started>>

\* variant: the location is emptied before the pages are written
SavedFolder_Cleared(st, backend, d, pages) ==
    LET arts == Artifacts(backend, d, pages) IN Put(<<>>, arts, Len(arts))

\* _save_extracted_content_to_service1_folder / _save_extracted_content_to_s3
\* without an error: mkdir(exist_ok=True), then one open(..., "w") or
\* put_object per page of this extraction; nothing is listed or removed
SavedFolder(st, backend, d, pages) ==
    LET arts == Artifacts(backend, d, pages) IN Put(st, arts, Len(arts))

\* a successful processing of document d whose pages are of the given kinds
ProcessAgain(d, kinds) ==
    /\ reprocess.runs < MaxRuns
    /\ reprocess.doc \in {0, d}
    /\ LET pages == ExtractPages(kinds)
       IN  /\ store' = SavedFolder(store, storage_backend, d, pages)
           /\ reprocess' = [doc |-> d, runs |-> reprocess.runs + 1, pages |-> pages]
    /\ ReprocessUnchanged

ReprocessNext ==
    \E d \in Docs, n \in 1..MaxPages : \E kinds \in [1..n -> PageKinds] :
        ProcessAgain(d, kinds)

ReprocessSpec == ReprocessInit /\ [][ReprocessNext]_vars

\* ------------------------------------------------------------------ PDF processor
\* the files the processor is called on: one that needs no password, or one
\* encrypted with some password
PdfFiles ==
    {[needs_pass |-> FALSE, password |-> NoValue, pages |-> PagesOf(d)] : d \in Docs}
    \cup {[needs_pass |-> TRUE, password |-> p, pages |-> PagesOf(d)] :
              p \in Passwords, d \in Docs}

EnhancedInit ==
    /\ BatchInit(NoRequests, RecordedAsIs, "local")
    /\ trackers = <<>>
    /\ progress_response = NoResponse
    /\ provided_password \in {NoValue, ""} \cup Passwords
    /\ saved_passwords \in {NoValue, ""} \cup Passwords
    /\ password_cache \in {NoValue} \cup Passwords
    /\ default_password \in {""} \cup Passwords
    /\ pdf \in PdfFiles
    /\ enhanced = EnhancedIdle
    /\ source = SourceIdle
    /\ password_file = NoPasswordFile
    /\ cleanup = CleanupIdle
    /\ config = ConfigIdle
    /\ UnitsIdle

\* extract_text_from_pdf_enhanced up to the loop: the candidates of the
\* resolver, cut to three; suggested_passwords are those that are not None
EnhancedBegin ==
    /\ enhanced.pc = "idle"
    /\ LET tries == Truncate(GetAllPasswordsForFile(provided_password, saved_passwords,
                                                      password_cache, default_password))
       IN  enhanced' = [enhanced EXCEPT
                !.pc = "loop",
                !.passwords_to_try = tries,
                !.result.suggested_passwords = SelectSeq(tries, IsNotNone)]
    /\ UNCHANGED <<batch, trackers, progress_response, provided_password, saved_passwords,
                   password_cache, default_password, pdf, source, password_file, cleanup, config, units>>

\* the call goes on to the next candidate
Continue(e) == [e EXCEPT !.attempt = @ + 1, !.result.attempts_made = e.attempt + 1]

\* the pages are read and the call returns success
ReturnSuccess(e) ==
    [e EXCEPT !.pc = "returned", !.result.attempts_made = e.attempt + 1,
              !.result.total_pages = Len(pdf.pages),
              !.result.pages = ExtractPages(pdf.pages), !.result.success = TRUE]

\* one pass of the loop over passwords_to_try.  fitz.open may raise; a file
\* that needs a password is skipped with an empty candidate and with one that
\* does not authenticate; otherwise the candidate is password_used, a
\* non-empty one is saved (cache, then CSV file, whose write may raise), the
\* pages are read and the call returns.  Any exception inside the pass is
\* logged as a failed attempt and the loop goes on.
PasswordAttempt ==
    /\ enhanced.pc = "loop"
    /\ enhanced.attempt < Len(enhanced.passwords_to_try)
    /\ LET pwd == enhanced.passwords_to_try[enhanced.attempt + 1]
       IN  \E out \in {"open_raises", "opened_saved", "opened_save_raises"} :
            CASE out = "open_raises" ->
                    /\ enhanced' = Continue([enhanced EXCEPT
                                               !.raised = Append(@, MsgOpenError)])
                    /\ UNCHANGED <<password_cache, saved_passwords>>
              [] out # "open_raises" /\ pdf.needs_pass
                                     /\ (~Truthy(pwd) \/ pwd # pdf.password) ->
                    /\ enhanced' = Continue(enhanced)
                    /\ UNCHANGED <<password_cache, saved_passwords>>
              [] OTHER ->
                    LET used == [enhanced EXCEPT !.result.password_used = pwd,
                                                 !.opened = Append(@, pwd)]
                    IN  IF ~Truthy(pwd)
                        THEN /\ enhanced' = ReturnSuccess(used)
                             /\ UNCHANGED <<password_cache, saved_passwords>>
                        ELSE /\ password_cache' = pwd
                             /\ IF out = "opened_saved"
                                THEN /\ saved_passwords' = pwd
                                     /\ enhanced' = ReturnSuccess(used)
                                ELSE /\ enhanced' = Continue(used)
                                     /\ UNCHANGED saved_passwords
    /\ UNCHANGED <<batch, trackers, progress_response, provided_password,
                   default_password, pdf, source, password_file, cleanup, config, units>>

\* after the loop: every candidate was tried and none led to a return
PasswordsExhausted ==
    /\ enhanced.pc = "loop"
    /\ enhanced.attempt = Len(enhanced.passwords_to_try)
    /\ enhanced' = [enhanced EXCEPT !.pc = "returned",
                                    !.result.error_message =
                                        AuthFailedMessage(enhanced.result.attempts_made),
                                    !.result.password_required = TRUE]
    /\ UNCHANGED <<batch, trackers, progress_response, provided_password, saved_passwords,
                   password_cache, default_password, pdf, source, password_file, cleanup, config, units>>

EnhancedNext == EnhancedBegin \/ PasswordAttempt \/ PasswordsExhausted

EnhancedSpec == EnhancedInit /\ [][EnhancedNext]_vars

\* ------------------------------------------------------------------ specification
TaskStep(w) ==
    \/ SetLockSelect(w)
    \/ SetLockUpdate(w)
    \/ GetPdfFile(w)
    \/ DownloadDone(w)
    \/ UpdateDatalakeRawUri(w)
    \/ ExtractPdfText(w)
    \/ SaveExtractedContent(w)
    \/ UpdateDatalakeTextUri(w)
    \/ UpdateStatusComplete(w)
    \/ UpdateDuration(w)
    \/ UpdateLastProcessed(w)
    \/ CallService2(w)
    \/ Service2Response(w)
    \/ IncrementAndReturn(w)
    \/ UpdateStatusFailed(w)
    \/ UpdateErrorMessage(w)
    \/ ExceptIncrementAndReturn(w)
    \/ ClearProcessingLock(w)

Next ==
    \/ \E b \in Batches : ExtractRequest(b) \/ OrchBegin(b) \/ OrchSpawn(b) \/ OrchFinish(b)
    \/ \E w \in Workers : TaskStep(w)

Spec == Init /\ [][Next]_vars

\* the threads of the batches keep running until they end
LiveSpec == Spec /\ WF_vars(Next)


\* ------------------------------------------------------------------ properties
OpsOf(s) == [i \in DOMAIN s |-> s[i].op]
CountOp(s, op) == Cardinality({i \in DOMAIN s : s[i].op = op})
IsQueueOrStoreOp(e) == e.op # "increment"
\* the log without the tracker calls
StoreOps(w) == OpsOf(SelectSeq(log[w], IsQueueOrStoreOp))
StatusWrites(w) == SelectSeq(log[w], LAMBDA e : e.op = "status")
Returned(w) == pc[w] = "done"
\* the task holds the row lock: its acquire returned True and it has not ended
HoldsLock(w) == lock_acquired[w] /\ pc[w] # "done"
LastThree(s) == SubSeq(s, Len(s) - 2, Len(s))

\* C1: at no time do two tasks (of one batch or of different batches) both
\* hold the processing lock of the same doc_id.
C1_MutualExclusion ==
    \A w1, w2 \in Workers :
        (w1 # w2 /\ w1[2] = w2[2]) => ~(HoldsLock(w1) /\ HoldsLock(w2))

\* C2: a task that has returned has issued exactly one release if its acquire
\* returned True and none if it returned False; no task ever issues a second
\* release, and a release is only issued by a task that acquired the lock.
C2_ExactlyOneRelease ==
    \A w \in Workers :
        /\ CountOp(log[w], "release") <= 1
        /\ CountOp(log[w], "release") = 1 => lock_acquired[w]
        /\ Returned(w) =>
              CountOp(log[w], "release") = (IF lock_acquired[w] THEN 1 ELSE 0)
        /\ lock_acquired[w] <=> CountOp(log[w], "lock_acquired") = 1

\* a task that took the lock, ran into the except block (storage error) and
\* has returned
C2_Witness ==
    \E w \in Workers :
        /\ Returned(w) /\ lock_acquired[w]
        /\ result[w].error = MsgStorageError

\* the step in which task w returns
Returns(w) == pc[w] = "release" /\ pc'[w] = "done"

C4_UriBeforeStatus ==
    \A d \in Docs :
        rows[d].text_extraction_status = 100 => rows[d].datalake_text_uri # NoValue

\* C5: within one attempt a task issues at most one status write, the value
\* written is 100 or -1, and the row status is never anything but 0, 100, -1.
C5_StatusWrittenOnce ==
    /\ \A w \in Workers :
          /\ Len(StatusWrites(w)) <= 1
          /\ \A i \in DOMAIN StatusWrites(w) : StatusWrites(w)[i].value \in {100, -1}
          /\ ~({"status_100", "status_failed"} \subseteq wrote[w])
    /\ \A d \in Docs : rows[d].text_extraction_status \in {0, 100, -1}

\* a returned task that went through the except block wrote the status once
C5_Witness ==
    \E w \in Workers :
        /\ Returned(w)
        /\ result[w].error = MsgCopyError
        /\ Len(StatusWrites(w)) = 1
        /\ rows[w[2]].text_extraction_status = -1

SuccessOrder ==
    <<"lock_acquired", "raw_uri", "pages_persisted", "text_uri", "status",
      "duration", "last_processed", "notify", "release">>

IsPrefix(s, t) == Len(s) <= Len(t) /\ s = SubSeq(t, 1, Len(s))

\* C6: a task that returned success issued, in exactly this order: lock
\* acquired, datalake_raw_uri, pages persisted, datalake_text_uri, status 100,
\* duration, last_processed, downstream notify, lock release; and while it is
\* on the way its operations are a prefix of that order.
C6_SuccessOrder ==
    \A w \in Workers :
        /\ (Returned(w) /\ result[w].success) =>
              /\ StoreOps(w) = SuccessOrder
              /\ StatusWrites(w)[1].value = 100
        /\ (CountOp(log[w], "text_uri") = 1) => IsPrefix(StoreOps(w), SuccessOrder)

\* a task returned success after a notify that was really sent
C6_Witness ==
    \E w \in Workers :
        /\ Returned(w) /\ result[w].success
        /\ service2_enabled /\ service2_success[w] = "True"

\* C7: a task that acquired the lock and returned a failure issued status -1,
\* then the error message, then the release, as its last three operations, and
\* issued no datalake_text_uri, duration or last_processed write and no notify.
C7_FailureShortCircuit ==
    \A w \in Workers :
        (Returned(w) /\ lock_acquired[w] /\ ~result[w].success) =>
            /\ Len(StoreOps(w)) >= 3
            /\ LastThree(StoreOps(w)) = <<"status", "error", "release">>
            /\ StatusWrites(w)[1].value = -1
            /\ \A op \in {"text_uri", "duration", "last_processed", "notify"} :
                  CountOp(log[w], op) = 0
            /\ wrote[w] \cap {"datalake_text_uri", "text_extraction_duration_seconds",
                              "last_processed_at"} = {}

\* a task failed on the object-store put after its pages were extracted
C7_Witness ==
    \E w \in Workers :
        /\ Returned(w) /\ lock_acquired[w]
        /\ extraction[w].success
        /\ result[w].error = MsgStorageError
        /\ rows[w[2]].text_extraction_status = -1

\* C8: a step of a task whose acquire has not returned True leaves every queue
\* row as it was, and such a task returns the failure "Document is currently
\* being processed" without having issued any operation.
C8_ContentionLeavesRow ==
    [][\A w \in Workers :
          (pc'[w] # pc[w] /\ ~lock_acquired'[w]) =>
              /\ rows' = rows
              /\ log'[w] = <<>> /\ wrote'[w] = {}
              /\ Returned(w)' =>
                    /\ ~result'[w].success
                    /\ result'[w].error = MsgLocked]_vars

\* a task was turned away while another task held the lock of its row
C8_Witness ==
    \E w1, w2 \in Workers :
        /\ w1 # w2 /\ w1[2] = w2[2]
        /\ Returned(w1) /\ result[w1].error = MsgLocked /\ log[w1] = <<>>
        /\ HoldsLock(w2) /\ rows[w2[2]].is_processing

\* operations issued after the notify
AfterNotify(w) ==
    LET s == OpsOf(log[w])
        i == CHOOSE j \in DOMAIN s : s[j] = "notify"
    IN  SubSeq(s, i + 1, Len(s))

\* C9: after a notify that failed (any non-2xx status, timeout, transport
\* error or other exception) the task goes on to the tracker increment and
\* the release and nothing else: it issues no further queue write, it returns
\* success, and its batch ends completed.
C9_DownstreamIsolation ==
    \A w \in Workers :
        service2_success[w] = "False" =>
            /\ pc[w] \in {"increment", "release", "done"}
            /\ IsPrefix(AfterNotify(w), <<"increment", "release">>)
            /\ Returned(w) => result[w].success
            /\ opc[w[1]] = "finished" =>
                  /\ outcome[w[1]] = "completed"
                  /\ batch_id[w[1]] \in DOMAIN trackers =>
                        trackers[batch_id[w[1]]]["status"] = "completed"

\* the notify failed, the batch is over and the row still has status 100
C9_Witness ==
    \E w \in Workers :
        /\ service2_success[w] = "False"
        /\ opc[w[1]] = "finished" /\ outcome[w[1]] = "completed"
        /\ rows[w[2]].text_extraction_status = 100
        /\ rows[w[2]].datalake_text_uri = TextUriOf(w[2])

\* C10: while the notify is waiting for its response, the tracker increment
\* of the document has been made and the lock has been released.
C10_NotifyDoesNotBlock ==
    \A w \in Workers :
        pc[w] = "notify_wait" =>
            /\ CountOp(log[w], "increment") = 1
            /\ CountOp(log[w], "release") = 1

\* the snapshot of batch b, when the tracker has one
HasSnapshot(b) == IF opc[b] = "idle" THEN FALSE ELSE batch_id[b] \in DOMAIN trackers
Snapshot(b) == trackers[batch_id[b]]

\* C11: a batch whose orchestrator made its terminal tracker call has, with
\* fetched rows, every task finished and was completed if and only if at least
\* one result is a success, else failed with "All documents failed to
\* process"; with no row fetched it was failed with "No documents found in
\* queue" and none of its tasks was ever started.
C11_BatchOutcomeRule ==
    \A b \in Batches :
        /\ outcome[b] # "none" <=> opc[b] = "finished"
        /\ (opc[b] = "finished" /\ documents[b] # {}) =>
              /\ \A w \in TasksOf(b) : Returned(w)
              /\ outcome[b] = "completed" <=> \E w \in TasksOf(b) : result[w].success
              /\ HasSnapshot(b) =>
                    IF \E w \in TasksOf(b) : result[w].success
                    THEN /\ Snapshot(b)["status"] = "completed"
                         /\ Snapshot(b)["results"] = {result[w] : w \in TasksOf(b)}
                    ELSE /\ Snapshot(b)["status"] = "failed"
                         /\ Snapshot(b)["error"] = MsgAllFailed
        /\ (opc[b] = "finished" /\ documents[b] = {}) =>
              /\ outcome[b] = "failed"
              /\ \A d \in Docs : pc[<<b, d>>] = "unborn"
              /\ HasSnapshot(b) =>
                    /\ Snapshot(b)["status"] = "failed"
                    /\ Snapshot(b)["error"] = MsgNoDocs

\* a batch of two documents ended completed with one success and one failure
C11_Witness ==
    \E b \in Batches :
        /\ opc[b] = "finished" /\ HasSnapshot(b)
        /\ Snapshot(b)["status"] = "completed"
        /\ \E w1, w2 \in TasksOf(b) : result[w1].success /\ ~result[w2].success

\* the request of batch b was answered and the tracker has its snapshot
Started(b) == HasSnapshot(b)
Terminal(b) ==
    IF HasSnapshot(b) THEN Snapshot(b)["status"] \in {"completed", "failed"} ELSE FALSE

\* C12: the snapshot of every started batch, whatever the number_of_pages of
\* the fetched rows, eventually has status completed or failed and keeps it.
C12_BatchReachesTerminalStatus ==
    \A b \in Batches : [](Started(b) => <>[]Terminal(b))

\* C13: in every snapshot processed_documents is at most total_documents and
\* progress_percentage, once set, lies in 0..100; no step lowers
\* processed_documents of a snapshot; whatever the number_of_pages columns say
\* about the pages really extracted.
C13_ProgressAccounting ==
    /\ [](\A id \in DOMAIN trackers :
            /\ trackers[id]["processed_documents"] <= trackers[id]["total_documents"]
            /\ "progress_percentage" \in DOMAIN trackers[id] =>
                  trackers[id]["progress_percentage"] \in 0..100)
    /\ [][\A id \in DOMAIN trackers :
            trackers'[id]["processed_documents"] >= trackers[id]["processed_documents"]]_vars

\* floor(100 * a / b) for naturals a, b with b > 0
Floor100(a, b) == (100 * a) \div b

\* C14: a call increment_processed(id, processed_pages = p) on an existing
\* snapshot raises processed_documents by 1 and processed_pages by p, and
\* leaves progress_percentage at floor(100 * processed_pages / total_pages)
\* when total_pages > 0, else at floor(100 * processed_documents /
\* total_documents), 0 when total_documents = 0.
C14_IncrementArithmetic ==
    [][\A id \in PolledIds, p \in 0..MaxIncrement :
          (id \in DOMAIN trackers /\ IncrementProcessedCall(id, p)) =>
              LET old == trackers[id]
                  new == trackers'[id]
              IN  /\ new["processed_documents"] = old["processed_documents"] + 1
                  /\ new["processed_pages"] = old["processed_pages"] + p
                  /\ new["progress_percentage"] =
                        IF new["total_pages"] > 0
                        THEN Floor100(new["processed_pages"], new["total_pages"])
                        ELSE IF new["total_documents"] > 0
                             THEN Floor100(new["processed_documents"],
                                           new["total_documents"])
                             ELSE 0]_vars

\* a reply has come in for a batch id the tracker has no snapshot of
RepliedUnknown ==
    IF progress_response.http = "none" THEN FALSE
    ELSE progress_response.batch_id \notin DOMAIN trackers

\* C15: the reply to a progress query for a batch id without snapshot is a
\* 200 with status completed, progress_percentage 100, zero counts and empty
\* results, never a not-found error.
C15_UnknownBatchIsCompleted ==
    RepliedUnknown =>
        /\ progress_response.http = "200"
        /\ progress_response.status = "completed"
        /\ progress_response.progress_percentage = 100
        /\ progress_response.results = {}
        /\ progress_response.total_documents = 0
        /\ progress_response.processed_documents = 0

\* the never-started id was queried while another batch had a live snapshot
C15_Witness ==
    /\ RepliedUnknown
    /\ progress_response.batch_id = UnknownId
    /\ TrackedId \in DOMAIN trackers
    /\ trackers[TrackedId]["status"] = "starting"

\* the reply to POST /extract of batch b was sent and its thread has not ended
Running(b) == opc[b] \in {"queued", "fetched", "gather"}

\* C16: while a batch whose id was returned by POST /extract is running, the
\* tracker has a snapshot for that id (generated or supplied by the caller),
\* and a progress query for it is answered from that snapshot.
C16_LiveProgressForEveryBatch ==
    \A b \in Batches :
        Running(b) =>
            /\ HasSnapshot(b)
            /\ GetProgressResponse(trackers, batch_id[b]).total_documents =
                  Cardinality(request[b].queue_ids)

\* C17: a task takes the lock and starts the pipeline only on a row whose
\* text_extraction_status is 0, and the status of a row changes only from 0.
C17_NoReprocessingOfSettledRows ==
    [][/\ \A w \in Workers :
            (pc[w] = "lock_update" /\ pc'[w] = "get_pdf") =>
                rows[w[2]].text_extraction_status = 0
       /\ \A d \in Docs :
            rows'[d].text_extraction_status # rows[d].text_extraction_status =>
                rows[d].text_extraction_status = 0]_vars

\* the column each write operation of the log sets
FieldsOf(e) ==
    CASE e.op = "raw_uri" -> {"datalake_raw_uri"}
      [] e.op = "text_uri" -> {"datalake_text_uri"}
      [] e.op = "status" -> {IF e.value = 100 THEN "status_100" ELSE "status_failed"}
      [] e.op = "error" -> {"error_message"}
      [] e.op = "duration" -> {"text_extraction_duration_seconds"}
      [] e.op = "last_processed" -> {"last_processed_at"}
      [] OTHER -> {}
\* the writes task w issued whose statement raised
FailedWrites(s, done) == {i \in DOMAIN s : FieldsOf(s[i]) \ done # {}}

\* C18: when a task returns after one of its status, URI, error, duration or
\* last_processed writes raised, its operations are the full order of its
\* path (success: the nine steps; failure: status, error, release last), its
\* result is the one the extraction and the object store determine, and the
\* release was issued and cleared the row unless the release statement itself
\* raised in that step.
C18_WriteFailureDoesNotAbort ==
    [][\A w \in Workers :
          (Returns(w) /\ lock_acquired[w] /\ FailedWrites(log[w], wrote[w]) # {}) =>
              /\ IF CountOp(log[w], "pages_persisted") = 1
                 THEN /\ StoreOps(w)' = SuccessOrder
                      /\ result[w] = Succeeded(w[2], PhysicalPages(w[2]))
                 ELSE /\ LastThree(StoreOps(w)') = <<"status", "error", "release">>
                      /\ \A op \in {"text_uri", "duration", "last_processed", "notify"} :
                            CountOp(log[w], op) = 0
                      /\ failure[w] # NoValue
                      /\ result[w] = Failed(w[2], failure[w])
              /\ result'[w] = result[w]
              /\ CountOp(log'[w], "release") = 1
              /\ \/ /\ rows'[w[2]].is_processing = FALSE
                    /\ rows'[w[2]].processing_started_at = NoValue
                 \/ db_failures' = db_failures + 1]_vars

\* a task returned success with the row unlocked although its duration write
\* had raised
C18_Witness ==
    \E w \in Workers :
        /\ Returned(w) /\ lock_acquired[w] /\ result[w].success
        /\ CountOp(log[w], "duration") = 1
        /\ "text_extraction_duration_seconds" \notin wrote[w]
        /\ StoreOps(w) = SuccessOrder
        /\ ~rows[w[2]].is_processing

\* C19: at most three candidates are tried; a candidate that opens the
\* document ends the loop and is password_used, so no second candidate is
\* tried after one opened it; a call that returns without any candidate
\* having opened the document has success = false, password_required = true,
\* attempts_made = number of candidates tried and suggested_passwords = the
\* candidates that are not None.
C19_AuthenticationLoop ==
    LET r == enhanced.result
    IN  /\ Len(enhanced.passwords_to_try) <= MaxAttempts
        /\ r.attempts_made <= MaxAttempts
        /\ Len(enhanced.opened) <= 1
        /\ enhanced.opened # <<>> =>
              /\ enhanced.pc = "returned"
              /\ r.success /\ ~r.password_required
              /\ r.password_used = enhanced.opened[1]
        /\ (enhanced.pc = "returned" /\ enhanced.opened = <<>>) =>
              /\ ~r.success /\ r.password_required
              /\ r.attempts_made = Len(enhanced.passwords_to_try)
              /\ r.suggested_passwords = SelectSeq(enhanced.passwords_to_try, IsNotNone)

\* a sequence without its repeated elements, the first occurrence kept
RECURSIVE FirstOccurrences(_)
FirstOccurrences(sq) ==
    IF sq = <<>> THEN <<>>
    ELSE LET front == FirstOccurrences(SubSeq(sq, 1, Len(sq) - 1))
             last == sq[Len(sq)]
         IN  IF InSeq(last, front) THEN front ELSE Append(front, last)

\* [provided, csv, memory, default] without the absent and the empty entries,
\* duplicates removed, then the null sentinel
PasswordOrder ==
    Append(FirstOccurrences(SelectSeq(<<provided_password, saved_passwords,
                                        password_cache, default_password>>, Truthy)),
           NoValue)

\* C20: when the processor asks for the candidates of a file, the list is
\* [provided, csv, memory, default, null] with absent or empty entries
\* omitted and duplicates removed keeping the first occurrence, the null
\* sentinel last; the loop gets its first three elements.
C20_PasswordOrder ==
    (enhanced.pc = "loop" /\ enhanced.attempt = 0) =>
        /\ GetAllPasswordsForFile(provided_password, saved_passwords, password_cache,
                                  default_password) = PasswordOrder
        /\ enhanced.passwords_to_try = Truncate(PasswordOrder)

\* the entries that exist: a provided and a default password that are not
\* empty, the CSV entry and the in-memory entry of the basename whatever
\* their value
PresentEntries ==
    (IF Truthy(provided_password) THEN <<provided_password>> ELSE <<>>)
    \o (IF saved_passwords # NoValue THEN <<saved_passwords>> ELSE <<>>)
    \o (IF password_cache # NoValue THEN <<password_cache>> ELSE <<>>)
    \o (IF Truthy(default_password) THEN <<default_password>> ELSE <<>>)

\* C20 amended: the list is [provided, csv, memory, default, null] where the
\* provided and the default password are omitted when absent or empty, the
\* CSV entry and the in-memory entry are omitted only when the basename has
\* none (an empty CSV entry is a candidate), duplicates are removed keeping
\* the first occurrence and the null sentinel is last and occurs once; the
\* loop gets its first three elements.
C20_PasswordOrderKeepsEmptyCsvEntry ==
    (enhanced.pc = "loop" /\ enhanced.attempt = 0) =>
        LET all == GetAllPasswordsForFile(provided_password, saved_passwords,
                                          password_cache, default_password)
        IN  /\ all = Append(FirstOccurrences(PresentEntries), NoValue)
            /\ all[Len(all)] = NoValue
            /\ \A i, j \in DOMAIN all : all[i] = all[j] => i = j
            /\ enhanced.passwords_to_try = Truncate(all)

\* the processor asked for the candidates of a file with an empty CSV entry,
\* a provided password equal to the default one and another one in memory
C20_Witness ==
    /\ enhanced.pc = "loop" /\ enhanced.attempt = 0
    /\ saved_passwords = ""
    /\ Truthy(provided_password) /\ provided_password = default_password
    /\ password_cache \notin {NoValue, provided_password}
    /\ enhanced.passwords_to_try = <<provided_password, "", password_cache>>

PageMethods == {"fitz", "tesseract", "failed"}
HasFailedPage(pages) == \E i \in DOMAIN pages : pages[i].method = "failed"

\* C21: an extraction result that reports neither an authentication failure
\* nor an exception of the renderer is a success whose pages hold one record for each page 1..total_pages with method fitz,
\* tesseract or failed; failed pages do not fail the document: the task
\* issues status 100 (the row holds 100 when that write goes through) and,
\* unless persisting the pages raised, returns success.
C21_FailedPageDoesNotFailDocument ==
    /\ [](\A w \in Workers :
            (extraction[w] # NoExtraction
                /\ ~extraction[w].password_required
                /\ extraction[w].error_message # MsgRenderer) =>
                /\ extraction[w].success
                /\ DOMAIN extraction[w].pages = 1..extraction[w].total_pages
                /\ extraction[w].total_pages = PhysicalPages(w[2])
                /\ \A i \in DOMAIN extraction[w].pages :
                      extraction[w].pages[i].method \in PageMethods
                /\ (Returned(w) /\ CountOp(log[w], "pages_persisted") = 1) =>
                      /\ result[w].success
                      /\ OpsOf(StatusWrites(w)) = <<"status">>
                      /\ StatusWrites(w)[1].value = 100)
    /\ [][\A w \in Workers :
            ("status_100" \notin wrote[w] /\ "status_100" \in wrote'[w]) =>
                rows'[w[2]].text_extraction_status = 100]_vars

\* a task returned success, with status 100 in the row, for a document with a
\* page that no method could read
C21_Witness ==
    \E w \in Workers :
        /\ Returned(w) /\ result[w].success
        /\ HasFailedPage(extraction[w].pages)
        /\ rows[w[2]].text_extraction_status = 100

\* the extraction of task w ended after the loop without a candidate that
\* led to a return
AuthFailed(w) == extraction[w].password_required

\* C22: when all password candidates failed, the task issues status -1 and an
\* error message that names the number of attempts made (the row holds both
\* when the writes go through) and returns that failure; no step of the task
\* writes an artifact to the object store or changes datalake_text_uri.
C22_AuthFailureIsTerminal ==
    /\ [](\A w \in Workers :
            AuthFailed(w) =>
                /\ ~extraction[w].success
                /\ \E n \in 1..MaxAttempts :
                      /\ extraction[w].error_message =
                            "PDF requires password. Tried " \o ToString(n) \o " attempts"
                      /\ failure[w] = extraction[w].error_message
                /\ CountOp(log[w], "pages_persisted") = 0
                /\ CountOp(log[w], "text_uri") = 0
                /\ "datalake_text_uri" \notin wrote[w]
                /\ Returned(w) =>
                      /\ result[w] = Failed(w[2], extraction[w].error_message)
                      /\ LastThree(StoreOps(w)) = <<"status", "error", "release">>
                      /\ StatusWrites(w)[1].value = -1)
    /\ [][\A w \in Workers :
            (AuthFailed(w) /\ pc'[w] # pc[w]) =>
                /\ store' = store
                /\ rows'[w[2]].datalake_text_uri = rows[w[2]].datalake_text_uri
                /\ ("status_failed" \notin wrote[w] /\ "status_failed" \in wrote'[w]) =>
                      rows'[w[2]].text_extraction_status = -1
                /\ ("error_message" \notin wrote[w] /\ "error_message" \in wrote'[w]) =>
                      rows'[w[2]].error_message = extraction[w].error_message]_vars

\* a task returned after three candidates failed; the row holds -1 and the
\* message, the store is empty
C22_Witness ==
    \E w \in Workers :
        /\ Returned(w) /\ AuthFailed(w)
        /\ extraction[w].error_message = AuthFailedMessage(MaxAttempts)
        /\ rows[w[2]].text_extraction_status = -1
        /\ rows[w[2]].error_message = extraction[w].error_message
        /\ rows[w[2]].datalake_text_uri = NoValue
        /\ store = <<>>

\* C23: when every attempt of a call ended in an exception of the renderer
\* (fitz.open raised, no page was produced), the call returns a failure whose
\* error message is the message the renderer raised.
C23_RendererMessageReported ==
    (/\ enhanced.pc = "returned"
     /\ enhanced.raised # <<>>
     /\ Len(enhanced.raised) = enhanced.result.attempts_made) =>
        /\ ~enhanced.result.success
        /\ enhanced.result.pages = <<>>
        /\ enhanced.result.error_message = enhanced.raised[Len(enhanced.raised)]

\* the rule the claim names for a row: the first that applies
FirstApplicableRule(files, d, raw, src) ==
    CASE DatalakePdf(d) \in files -> "existing"
      [] DatalakePdf(d) \notin files /\ raw \in files -> "copy_raw"
      [] DatalakePdf(d) \notin files /\ raw \notin files /\ src \in files -> "copy_source"
      [] DatalakePdf(d) \notin files /\ raw \notin files /\ src \notin files
            /\ src # Null /\ src[1] \in {"http", "https"} -> "download"
      [] OTHER -> "none"

\* C25: get_pdf_file takes the first applicable rule in the order: existing
\* source.pdf used as is; datalake_raw_uri, an existing path, copied;
\* source_uri, an existing path, copied; source_uri, an http(s) URL,
\* downloaded.  If no rule applies or the download fails, the document fails
\* with status -1 and "Could not access PDF file".
C25_SourceMaterialization ==
    [][/\ (source.pc = "idle" /\ source'.pc # "idle") =>
            /\ source'.rule = FirstApplicableRule(source.files, source.doc,
                                                  source.datalake_raw_uri, source.source_uri)
            /\ source'.rule = "existing" =>
                  /\ source'.pc = "returned" /\ source'.files = source.files
                  /\ source'.result = SourcePdfPath(source.doc) /\ source'.status = 0
            /\ (source'.rule \in {"copy_raw", "copy_source"} /\ source'.pc = "returned") =>
                  /\ DatalakePdf(source.doc) \in source'.files
                  /\ source'.result = SourcePdfPath(source.doc) /\ source'.status = 0
            /\ source'.rule = "download" => source'.pc = "downloading"
            /\ source'.rule = "none" =>
                  /\ source'.pc = "returned" /\ source'.result = NoValue
                  /\ source'.status = -1 /\ source'.error = "Could not access PDF file"
       /\ (source.pc = "downloading" /\ source'.pc # "downloading") =>
            /\ source'.pc = "returned"
            /\ \/ /\ source'.result = SourcePdfPath(source.doc)
                  /\ DatalakePdf(source.doc) \in source'.files
                  /\ source'.status = 0 /\ source'.error = NoValue
               \/ /\ source'.result = NoValue
                  /\ source'.status = -1 /\ source'.error = "Could not access PDF file"]_vars

\* source_uri was copied for a row whose datalake_raw_uri names a file that
\* is not there
C25_Witness ==
    /\ source.pc = "returned" /\ source.rule = "copy_source"
    /\ source.datalake_raw_uri = RawPath /\ RawPath \notin source.files
    /\ source.result = SourcePdfPath(source.doc)

\* the name the claim gives the artifact of page n (n below 10), relative to
\* the root of the backend, and its content
ClaimedName(d, n, method) ==
    ToString(d) \o "/extracted_text/page_000" \o ToString(n) \o "_" \o method \o ".md"
ClaimedBody(n, page) ==
    "# Page " \o ToString(n) \o " - "
    \o (CASE page.method = "fitz" -> "FITZ"
          [] page.method = "tesseract" -> "TESSERACT"
          [] page.method = "failed" -> "FAILED")
    \o "\n\n" \o page.text
\* the step in which task w has persisted its pages
Persists(w) == pc[w] = "persist" /\ pc'[w] = "text_uri"

\* C24: when a task has persisted a successful extraction, the store holds
\* for every page record, failed pages included, the artifact
\* <doc_id>/extracted_text/page_<NNNN>_<method>.md with the header
\* "# Page <N> - <METHOD>", a blank line and the page text; the step writes
\* one artifact per page and nothing else; the file map has one entry per
\* page; both backends use the same key relative to their root.
C24_OneArtifactPerPage ==
    /\ [][\A w \in Workers :
            Persists(w) =>
                LET pages == extraction[w].pages
                    keys == {OutputRoot(storage_backend) \o "/"
                                \o ClaimedName(w[2], n, pages[n].method) : n \in DOMAIN pages}
                IN  /\ DOMAIN pages = 1..PhysicalPages(w[2])
                    /\ Cardinality(keys) = Len(pages)
                    /\ keys \subseteq DOMAIN store'
                    /\ \A n \in DOMAIN pages :
                          store'[OutputRoot(storage_backend) \o "/"
                                    \o ClaimedName(w[2], n, pages[n].method)]
                              = ClaimedBody(n, pages[n])
                    /\ \A k \in DOMAIN store' :
                          (k \notin DOMAIN store \/ store'[k] # store[k]) => k \in keys
                    /\ \A k \in DOMAIN store : k \in DOMAIN store'
                    /\ DOMAIN FilePaths(storage_backend, w[2], pages) = DOMAIN pages
                    /\ \A n \in DOMAIN pages, b \in Backends :
                          /\ Artifacts(b, w[2], pages)[n].key =
                                OutputRoot(b) \o "/" \o ClaimedName(w[2], n, pages[n].method)
                          /\ FilePaths(b, w[2], pages)[n].text_file =
                                Artifacts(b, w[2], pages)[n].key]_vars
    /\ [](/\ ZeroPad4(7) = "0007" /\ ZeroPad4(42) = "0042" /\ ZeroPad4(365) = "0365"
          /\ ZeroPad4(1000) = "1000" /\ ZeroPad4(12345) = "12345")

\* the store holds the artifact of a page that no method could read, written
\* by a task that returned success
C24_Witness ==
    \E w \in Workers :
        /\ Returned(w) /\ result[w].success
        /\ \E n \in DOMAIN extraction[w].pages :
              /\ extraction[w].pages[n].method = "failed"
              /\ LET key == OutputRoot(storage_backend) \o "/"
                               \o ClaimedName(w[2], n, "failed")
                 IN  /\ key \in DOMAIN store
                     /\ store[key] = "# Page " \o ToString(n) \o " - FAILED\n\n"

\* C26: after any sequence of saves in a directory, load_saved_passwords
\* maps the basename of the last save to its password and every filename
\* saved before to the password it was last saved with.
C26_CsvRoundTrip ==
    password_file.saves > 0 =>
        LET loaded == LoadSavedPasswords(password_file.file)
        IN  /\ DOMAIN loaded = DOMAIN password_file.saved
            /\ \A n \in DOMAIN password_file.saved : loaded[n] = password_file.saved[n]

\* the results entries of the snapshot of batch b that carry the error of task w
ErrorEntries(b, w) ==
    {r \in Snapshot(b)["results"] : r.doc_id = w[2] /\ r.error = result[w].error}

\* C27: after the orchestrator of a batch with fetched rows made its terminal
\* tracker call, the batch's snapshot holds, for every document of the batch
\* whose result is a failure, a results entry of that document with its error,
\* whether some or all documents of the batch failed.
C27_FailedDocumentsInResults ==
    \A b \in Batches :
        (opc[b] = "finished" /\ documents[b] # {} /\ HasSnapshot(b)) =>
            \A w \in TasksOf(b) :
                ~result[w].success => ErrorEntries(b, w) # {}

\* the snapshot of id is in the tracker with a terminal status
Readable(id) ==
    IF id \in DOMAIN trackers THEN trackers[id]["status"] \in {"completed", "failed"}
    ELSE FALSE

\* the snapshot of id became terminal (by either call) / by complete_extraction
HasEnded(id) == id \in DOMAIN cleanup.ended
EndedBy(id, call) == IF HasEnded(id) THEN cleanup.ended[id].by = call ELSE FALSE

\* C28: a snapshot made terminal by complete_extraction or by fail_extraction
\* is in the tracker with its terminal status as long as fewer than 300
\* seconds have passed since, and is eventually removed from the tracker.
C28_SnapshotExpiry ==
    /\ [](\A id \in ExpiryIds :
            (HasEnded(id) /\ cleanup.now < cleanup.ended[id].at + CleanupDelay)
                => Readable(id))
    /\ \A id \in ExpiryIds : [](HasEnded(id) => <>(id \notin DOMAIN trackers))

\* the key is defined in the environment / in section sec of the file
EnvDefines == config.env # NoValue
SectionDefines(sec) ==
    IF sec \in DOMAIN config.file.options THEN config.file.options[sec] # NoValue
    ELSE FALSE

\* C29: a returned get_var call gave the environment value when the variable
\* is set; else the value of the key in the given section when that section
\* of the file has it; else the value of the key in a section of the file
\* that has it; else the fallback.
C29_ConfigPrecedence ==
    config.pc = "returned" =>
        IF EnvDefines THEN config.result = config.env
        ELSE IF SectionDefines(config.section)
             THEN config.result = config.file.options[config.section]
        ELSE IF \E sec \in ConfigSections : SectionDefines(sec)
             THEN \E sec \in ConfigSections :
                     /\ SectionDefines(sec)
                     /\ config.result = config.file.options[sec]
        ELSE config.result = config.fallback

\* the status of a snapshot is completed or failed
IsTerminal(snap) == snap["status"] \in {"completed", "failed"}

\* C30: the snapshot of a batch has status completed only when the batch's
\* orchestrator has made its complete_extraction call, which it makes after
\* every task of the batch returned, and then its progress_percentage is
\* 100; no step takes the status of a snapshot from completed or failed to
\* processing.
C30_TerminalStatusIsStable ==
    /\ [](\A b \in Batches :
            IF HasSnapshot(b)
            THEN Snapshot(b)["status"] = "completed" =>
                    /\ outcome[b] = "completed"
                    /\ \A w \in TasksOf(b) : Returned(w)
                    /\ GetProgressResponse(trackers, batch_id[b]).progress_percentage = 100
            ELSE TRUE)
    /\ [][\A id \in DOMAIN trackers :
            (IsTerminal(trackers[id]) /\ id \in DOMAIN trackers')
                => trackers'[id]["status"] # "processing"]_vars

\* the primary extractor gave a text that passes the length check and the gate
PrimaryAccepted(p) ==
    ~p.access_raises /\ ~p.fitz_raises /\ p.fitz_len >= MinTextLength /\ ~p.fitz_garbage

\* the OCR can be run on the page and does not raise
OcrWorks(p, available) == ~p.access_raises /\ available /\ ~p.ocr_raises

\* C31: the record of a page has method "fitz" exactly when the primary
\* extractor did not raise and its stripped text has min_text_length
\* characters and passes the gate; else method "tesseract", whatever the
\* length of the OCR text, when OCR is available and does not raise; else
\* method "failed" with empty text, empty layout and an error.
C31_MethodSelection ==
    page_call.pc = "returned" =>
        LET p == page_call.input
            r == page_call.record
        IN  /\ r.method = "fitz" <=> PrimaryAccepted(p)
            /\ r.method = "fitz" => r.text = TextOf("fitz", p.fitz_len)
            /\ ~PrimaryAccepted(p) =>
                  IF OcrWorks(p, page_call.available)
                  THEN r.method = "tesseract" /\ r.text.len = p.ocr_len /\ r.error = NoValue
                  ELSE /\ r.method = "failed"
                       /\ r.text.len = 0
                       /\ r.layout = "{}"
                       /\ r.error # NoValue

\* a page whose fitz text is too short was emitted with a short OCR text
C31_Witness ==
    /\ page_call.pc = "returned"
    /\ ~page_call.input.fitz_raises
    /\ page_call.input.fitz_len < MinTextLength
    /\ page_call.record.method = "tesseract"
    /\ page_call.record.text.len < MinTextLength

\* the first OCR pass of the page is short or fails the quality gate
PoorFirstPass(p) == p.ocr_len < MinOcrLength \/ p.ocr_garbage

\* C32: a page emitted with method "tesseract" whose first OCR pass gave
\* fewer than 10 characters or text that fails the quality gate carries the
\* text of a second pass made with the alternate page-segmentation mode.
C32_OcrSecondPass ==
    (page_call.pc = "returned" /\ page_call.record.method = "tesseract"
        /\ PoorFirstPass(page_call.input)) =>
        page_call.record.text = TextOf("psm3", page_call.input.psm3_len)

\* a fail_extraction call has written part of what it writes
PartlyFailed == \E t \in TrackerThreads : tracker_threads.pc[t] = "fail_error"

\* C33: every step that changes a snapshot is taken by the thread that holds
\* the tracker lock, and while a thread reads or writes inside the lock no
\* operation of another thread is partly applied.
C33_TrackerLocking ==
    /\ [][trackers' # trackers => tracker_threads.lock = tracker_threads'.actor]_vars
    /\ [](tracker_threads.lock # "free" => ~PartlyFailed)

\* both threads have left save_successful_password
BothSaved == \A t \in WriterThreads : writers.pc[t] = "done"

Increments(w) == CountOp(log[w], "increment")

\* C35: a task that returned success made exactly one increment_processed
\* call, and that call raised processed_documents by one and processed_pages
\* by the total_pages of its extraction; a task that returned a failure made
\* none.
C35_IncrementOnlyOnSuccess ==
    /\ [](\A w \in Workers :
            Returned(w) => Increments(w) = (IF result[w].success THEN 1 ELSE 0))
    /\ [][\A w \in Workers :
            (pc[w] = "increment" /\ pc'[w] # "increment"
                /\ batch_id[w[1]] \in DOMAIN trackers) =>
                LET old == trackers[batch_id[w[1]]]
                    new == trackers'[batch_id[w[1]]]
                IN  /\ new["processed_documents"] = old["processed_documents"] + 1
                    /\ new["processed_pages"] =
                          old["processed_pages"] + extraction[w].total_pages]_vars

\* request c was answered and its batch has not ended
Active(c) == started.id[c] # NoBatchId /\ ~started.done[c]

\* C36: the batch ids returned to two start_extraction calls differ, also
\* when both calls fall in one second with the same number of ids, and the
\* snapshot of a batch that has not ended is in the tracker, not completed by
\* and not removed for another batch.
C36_DistinctBatchIds ==
    /\ \A c1, c2 \in Callers :
          (c1 # c2 /\ started.id[c1] # NoBatchId /\ started.id[c2] # NoBatchId)
              => started.id[c1] # started.id[c2]
    /\ \A c \in Callers :
          Active(c) =>
              IF started.id[c] \in DOMAIN trackers
              THEN trackers[started.id[c]]["status"] # "completed"
              ELSE FALSE


\* C37: after any number of successful processings of one doc_id, the
\* document's extracted_text location holds exactly the artifacts of the
\* latest extraction, one per page 1..total_pages, with the bodies of that
\* extraction: nothing of an earlier run remains for a page whose method
\* changed or that no longer exists.
C37_IdempotentArtifacts ==
    reprocess.runs > 0 =>
        LET arts == Artifacts(storage_backend, reprocess.doc, reprocess.pages)
        IN  /\ DOMAIN store = {arts[n].key : n \in DOMAIN arts}
            /\ Cardinality(DOMAIN store) = Len(reprocess.pages)
            /\ \A n \in DOMAIN arts : store[arts[n].key] = arts[n].body


\* the call of get_pdf_file ended without a file: the copy raised, or the
\* download failed and None was returned
MaterializationFailed ==
    /\ source.rule \in {"copy_raw", "copy_source", "download"}
    /\ \/ source.pc = "raised"
       \/ source.pc = "returned" /\ source.result = NoValue

\* C38: when the copy or the download of the source fails at any point,
\* <datalake_root>/<doc_id>/source.pdf does not exist afterwards, so the next
\* call of get_pdf_file for the document does not take the rule "existing"
\* but materializes the source again.
C38_NoPartialSource ==
    MaterializationFailed =>
        /\ ~Exists(source.files, DatalakePdf(source.doc))
        /\ SourceRule(source.files, source.doc, source.datalake_raw_uri,
                      source.source_uri) # "existing"


\* the call has returned, some candidate had opened the document (the file
\* needed no password or the candidate authenticated) and fitz.open never
\* raised
Authenticated ==
    enhanced.pc = "returned" /\ enhanced.opened # <<>> /\ enhanced.raised = <<>>

\* C39: an error while the winning password is written to the password CSV
\* does not change the outcome: a call in which a candidate authenticated
\* returns success = true with the pages of the document and without
\* password_required.
C39_SaveFailureIsHarmless ==
    Authenticated =>
        /\ enhanced.result.success
        /\ ~enhanced.result.password_required
        /\ enhanced.result.total_pages = Len(pdf.pages)

====
